---- MODULE Spec2Model ----
(***************************************************************************)
(* A model of the eden-go-logger delivery pipeline.                        *)
(*                                                                         *)
(*   SpecAsync  - AsyncAppender (bounded channel, one worker, Close)       *)
(*   SpecLogger - Logger dispatch (level gate, fan-out) and a sink's filter *)
(*   SpecBurst  - BurstFilter (token bucket) under concurrent Decide calls  *)
(*   SpecComposite - CompositeFilter over a list of child filters           *)
(*   SpecRolling - RollingFileAppender: Append, rollover, cleanup, Close    *)
(*   SpecPolicies - RollingFileAppender with a TimeBasedPolicy               *)
(*   SpecCleanup - cleanup() of a RollingFileAppender over a directory       *)
(*   SpecEntry  - the maps of an Entry: MDC snapshot and WithFields          *)
(*   SpecParse  - ParseFilter over configuration maps                       *)
(*   SpecOrder  - a CompositeFilter and a copy with its children reordered  *)
(*   SpecCron   - a sink's shouldRoll with a CronBasedPolicy                 *)
(*                                                                         *)
(* Every specification constrains all variables: the variables of the      *)
(* subsystems a specification does not exercise stay at their initial      *)
(* value.                                                                  *)
(***************************************************************************)
EXTENDS Integers, Sequences, FiniteSets, TLC

(***************************************************************************)
(* Bounds of the model (not program constants).                            *)
(***************************************************************************)
NumProducers == 2
MaxEntries == 3
MaxBufferSize == 2
NumClosers == 2
MaxSinks == 2
NumDeciders == 2
MaxDecides == 4
MaxBurstSize == 2
MaxRate == 2
MaxTime == 1
MaxChildren == 3
NumWriters == 2
MaxAppends == 2
MaxFaults == 2
MaxFsTime == 1
MaxBackupFiles == 3
MaxModTime == 2
MaxCleanups == 2
MaxOrderCalls == 3
MaxCronTicks == 57

(***************************************************************************)
(* Program constants.                                                      *)
(***************************************************************************)
DefaultBufferSize == 4096
TRACE == 0
DEBUG == 1
INFO == 2
WARN == 3
ERROR == 4
FATAL == 5
OFF == 6

Producers == 1..NumProducers
Closers == 1..NumClosers
NoEntry == 0

VARIABLES
    \* ---- AsyncAppender ----
    capacity,        \* cap(a.msgChan)
    msgChan,         \* the buffered entries of a.msgChan, oldest first
    chanClosed,      \* close(a.msgChan) has run
    workerPc,        \* "recv" | "deliver" | "appending" | "done"
    workerEntry,     \* the entry the worker holds
    onceState,       \* a.once: "fresh" | "running" | "done"
    prodPc,          \* per producer: "idle" | "sending" | "panicked"
    prodEntry,       \* per producer: the entry of its Append call
    nextId,          \* the next entry to be logged
    closePc,         \* per closer: "idle", its position inside Close, "returned"
    closeRan,        \* per closer: its call ran the function of once.Do
    closeRet,        \* per closer: what its Close returned
    \* ---- history of the AsyncAppender ----
    enqOrder,        \* entries in the order they were put on the channel
    delivered,       \* entries in the order delegate.Append was invoked
    lastErr,         \* the latest entry for which delegate.Append returned an error
    chanCloseCount,  \* executions of close(a.msgChan)
    closeBacklog,    \* entries in the channel when it was closed
    delegCloseCalls, \* invocations of delegate.Close
    delegClosing,    \* delegate.Close has been invoked
    lateAppend,      \* delegate.Append was invoked after delegate.Close
    closePanic,      \* a Close call panicked
    \* ---- Logger ----
    level,           \* l.level
    appenders,       \* l.appenders: the registered sinks, in registration order
    sinkFilter,      \* per registered sink: its filter
    callPc,          \* the log call: "idle" | "snapshot" | "build" | "fanout" | "returned"
    callVia,         \* the logger it was made on: "Logger" | "Marker" | "Field"
    callLevel,       \* its level
    callMarker,      \* its marker
    callGate,        \* l.level as IsEnabled read it
    callRegistered,  \* the sinks that were registered when the call was made
    callEntry,       \* the Entry built, or NilEntry
    callSnapshot,    \* the call's copy of l.appenders
    callResults,     \* the Append calls made, in order, with their outcome
    \* ---- BurstFilter ----
    burst,           \* the filter: level, rate, maxBurst, onMatch, onMismatch, tokens, lastRefill
    burstMu,         \* f.mu: the Decide call that holds it, or NoDecider
    clock,           \* what time.Now() returns
    decidePc,        \* per caller: "idle" | "lock" | "refill" | "test" | "take" | "refuse" | "returned"
    decideLevel,     \* per caller: the level of the entry of its Decide call
    decideResult,    \* per caller: what its latest Decide returned
    \* ---- history of the BurstFilter ----
    decideCalls,     \* Decide calls made
    burstLog,        \* the results of the calls at or above the level, in the order of their decisions
    burstTimes,      \* the time (now) of each of these decisions
    elapsedSeen,     \* some call measured a non-zero elapsed time
    \* ---- CompositeFilter ----
    composite,       \* the filter: mode and filters (the children, in order)
    compEntry,       \* the entry of the latest Decide call, or NilEntry
    compResult,      \* what that call returned, or "none" (no call since the last Add)
    \* ---- RollingFileAppender ----
    rollCfg,         \* filename, filter, policies, maxBackups, maxAge, totalMaxSize
    file,            \* r.file: the name the handle was opened under, or NoHandle
    currentIndex,    \* r.currentIndex
    rollMu,          \* r.mu: the call that holds it, or NoWriter
    disk,            \* the directory: file name -> [data, mtime]
    fsNow,           \* what time.Now() returns
    wrPc,            \* per caller: "idle", "lock", or its position inside Append
    wrEntry,         \* per caller: the entry of its Append call
    cur,             \* what the Append call inside the lock has done so far
    \* ---- history of the RollingFileAppender ----
    appendCalls,     \* Append calls made with an entry that passed the filter
    faults,          \* failures of the file system so far
    renameCount,     \* successful os.Rename calls
    renameFailures,  \* failed os.Rename calls
    cleanupRuns,     \* calls of cleanup()
    removedFiles,    \* the names cleanup() has removed with os.Remove
    accepted,        \* the entries that passed the filter and whose Append returned nil
    lastRollover,    \* the time at which the latest rollover() returned nil, -1 if none has
    rollCloseDid,    \* what the latest Close did: "closed" | "failed" | "nothing"
                     \* ("none": no Close since an Append last took the lock)
    \* ---- Entry ----
    mdcData,         \* l.mdc.data: key -> value
    userFields,      \* the map the caller gave to WithFields: key -> value
    entryPc,         \* the log call: "idle" (not made) | "handed" (to the sinks) | "processed"
    builtEntry,      \* the Entry of the call: Context and Fields, or NilEntry
    builtMaps,       \* what Context and Fields held when the Entry was built
    sinkSaw,         \* what Context and Fields held when the sink processed the Entry
    \* ---- ParseFilter ----
    parseConfig,     \* the configuration map (or nil) given to ParseFilter
    parsePc,         \* "config" | "parsed" | "applied"
    parsedFilter,    \* what ParseFilter returned, the filter of the sink
    parseEntry,      \* the entry given to the sink's applyFilter, or NilEntry
    parseAccepted,   \* what applyFilter returned for it
    \* ---- a composite filter and a reordered copy of it ----
    ordOriginal,     \* a CompositeFilter; a burst child carries its tokens
    ordPermuted,     \* a CompositeFilter of the same children in another order
    ordEntry,        \* the entry of the latest Decide on both, or NilEntry
    ordResult,       \* <<result of the original, result of the reordered one>>
    ordCalls,        \* Decide calls made on each of the two
    ordNow,          \* time.Now() of the filters
    \* ---- a sink with a CronBasedPolicy ----
    cronSchedule,    \* the schedule string given to NewCronBasedPolicy, as characters
    cronPolicies,    \* r.policies: a cron policy, with or without a size policy
    cronNow,         \* time.Now(), in ticks of 1/TicksPerHour hour since midnight of day 0
    cronRotatedAt,   \* time of the sink's latest successful rollover, -1 if none
    cronTrues        \* the times at which the cron policy's ShouldRoll returned true

asyncVars == <<capacity, msgChan, chanClosed, workerPc, workerEntry, onceState,
               prodPc, prodEntry, nextId, closePc, closeRan, closeRet,
               enqOrder, delivered, lastErr, chanCloseCount, closeBacklog,
               delegCloseCalls, delegClosing, lateAppend, closePanic>>

loggerVars == <<level, appenders, sinkFilter, callPc, callVia, callLevel, callMarker,
                callGate, callRegistered, callEntry, callSnapshot, callResults>>

burstVars == <<burst, burstMu, clock, decidePc, decideLevel, decideResult,
               decideCalls, burstLog, burstTimes, elapsedSeen>>

compositeVars == <<composite, compEntry, compResult>>

rollingVars == <<rollCfg, file, currentIndex, rollMu, disk, fsNow, wrPc, wrEntry,
                 cur, appendCalls, faults, renameCount, renameFailures, cleanupRuns,
                 removedFiles, accepted, lastRollover, rollCloseDid>>

entryVars == <<mdcData, userFields, entryPc, builtEntry, builtMaps, sinkSaw>>

parseVars == <<parseConfig, parsePc, parsedFilter, parseEntry, parseAccepted>>

orderVars == <<ordOriginal, ordPermuted, ordEntry, ordResult, ordCalls, ordNow>>

cronVars == <<cronSchedule, cronPolicies, cronNow, cronRotatedAt, cronTrues>>

vars == <<asyncVars, loggerVars, burstVars, compositeVars, rollingVars, entryVars, parseVars,
          orderVars, cronVars>>

\* What an action of one subsystem leaves alone.
notAsyncVars == <<loggerVars, burstVars, compositeVars, rollingVars, entryVars, parseVars,
    orderVars, cronVars>>
notLoggerVars == <<asyncVars, burstVars, compositeVars, rollingVars, entryVars, parseVars,
    orderVars, cronVars>>
notBurstVars == <<asyncVars, loggerVars, compositeVars, rollingVars, entryVars, parseVars,
    orderVars, cronVars>>
notCompositeVars == <<asyncVars, loggerVars, burstVars, rollingVars, entryVars, parseVars,
    orderVars, cronVars>>
notRollingVars == <<asyncVars, loggerVars, burstVars, compositeVars, entryVars, parseVars,
    orderVars, cronVars>>
notEntryVars == <<asyncVars, loggerVars, burstVars, compositeVars, rollingVars, parseVars,
    orderVars, cronVars>>
notParseVars == <<asyncVars, loggerVars, burstVars, compositeVars, rollingVars, entryVars,
    orderVars, cronVars>>
notOrderVars == <<asyncVars, loggerVars, burstVars, compositeVars, rollingVars, entryVars,
    parseVars, cronVars>>
notCronVars == <<asyncVars, loggerVars, burstVars, compositeVars, rollingVars, entryVars,
    parseVars, orderVars>>

Range(s) == {s[i] : i \in 1..Len(s)}

(***************************************************************************)
(* AsyncAppender                                                           *)
(***************************************************************************)

\* NewAsyncAppender: the channel capacity for a requested bufferSize.
Capacity(bufferSize) == IF bufferSize <= 0 THEN DefaultBufferSize ELSE bufferSize

\* A send on a buffered channel blocks while the buffer is full.
\* Faulty variant: a send that never blocks.
ChanFullNever(q, cap) == FALSE
ChanFull(q, cap) == Len(q) >= cap

\* A buffered channel is FIFO: a send puts the entry last.
\* Faulty variant: a send that puts the entry first.
EnqueueFirst(q, e) == <<e>> \o q
Enqueue(q, e) == Append(q, e)

\* NewAsyncAppender(delegate, bufferSize): the state once the constructor returned
\* (the worker goroutine is started and has not received yet).
NewAsyncAppender(bufferSize) ==
    /\ capacity = Capacity(bufferSize)
    /\ msgChan = <<>>
    /\ chanClosed = FALSE
    /\ workerPc = "recv"
    /\ workerEntry = NoEntry
    /\ onceState = "fresh"

\* No producer has called Append and nobody has called Close.
AsyncFresh ==
    /\ prodPc = [p \in Producers |-> "idle"]
    /\ prodEntry = [p \in Producers |-> NoEntry]
    /\ nextId = 1
    /\ closePc = [c \in Closers |-> "idle"]
    /\ closeRan = [c \in Closers |-> FALSE]
    /\ closeRet = [c \in Closers |-> "none"]
    /\ enqOrder = <<>>
    /\ delivered = <<>>
    /\ lastErr = NoEntry
    /\ chanCloseCount = 0
    /\ closeBacklog = 0
    /\ delegCloseCalls = 0
    /\ delegClosing = FALSE
    /\ lateAppend = FALSE
    /\ closePanic = FALSE

AsyncInit ==
    /\ \E bufferSize \in 0..MaxBufferSize : NewAsyncAppender(bufferSize)
    /\ AsyncFresh

workerVars == <<workerPc, workerEntry, delivered, lastErr, lateAppend>>
prodVars == <<prodPc, prodEntry, nextId, enqOrder>>
closeVars == <<onceState, closePc, closeRan, closeRet, chanCloseCount, closeBacklog,
               delegCloseCalls, delegClosing, closePanic>>

\* A producer calls a.Append(entry) with a fresh entry.
AppendCall(p) ==
    /\ prodPc[p] = "idle"
    /\ nextId <= MaxEntries
    /\ prodPc' = [prodPc EXCEPT ![p] = "sending"]
    /\ prodEntry' = [prodEntry EXCEPT ![p] = nextId]
    /\ nextId' = nextId + 1
    /\ UNCHANGED <<capacity, msgChan, chanClosed, enqOrder>>
    /\ UNCHANGED workerVars
    /\ UNCHANGED closeVars
    /\ UNCHANGED notAsyncVars

\* a.msgChan <- entry; return nil. The send panics on a closed channel (also for
\* a sender that was blocked when the channel was closed) and blocks while the
\* buffer is full; once it is done Append returns nil.
ChanSend(p) ==
    /\ prodPc[p] = "sending"
    /\ IF chanClosed
       THEN /\ prodPc' = [prodPc EXCEPT ![p] = "panicked"]
            /\ UNCHANGED <<msgChan, enqOrder, prodEntry>>
       ELSE /\ ~ChanFull(msgChan, capacity)
            /\ msgChan' = Enqueue(msgChan, prodEntry[p])
            /\ enqOrder' = Append(enqOrder, prodEntry[p])
            /\ prodPc' = [prodPc EXCEPT ![p] = "idle"]
            /\ prodEntry' = [prodEntry EXCEPT ![p] = NoEntry]
    /\ UNCHANGED <<capacity, chanClosed, nextId>>
    /\ UNCHANGED workerVars
    /\ UNCHANGED closeVars
    /\ UNCHANGED notAsyncVars

\* for entry := range a.msgChan: the worker receives the oldest entry.
WorkerRecv ==
    /\ workerPc = "recv"
    /\ msgChan # <<>>
    /\ workerEntry' = Head(msgChan)
    /\ msgChan' = Tail(msgChan)
    /\ workerPc' = "deliver"
    /\ UNCHANGED <<capacity, chanClosed, delivered, lastErr, lateAppend>>
    /\ UNCHANGED prodVars
    /\ UNCHANGED closeVars
    /\ UNCHANGED notAsyncVars

\* The worker invokes a.delegate.Append(entry).
WorkerDelegateAppend ==
    /\ workerPc = "deliver"
    /\ delivered' = Append(delivered, workerEntry)
    /\ lateAppend' = (lateAppend \/ delegClosing)
    /\ workerPc' = "appending"
    /\ UNCHANGED <<capacity, msgChan, chanClosed, workerEntry, lastErr>>
    /\ UNCHANGED prodVars
    /\ UNCHANGED closeVars
    /\ UNCHANGED notAsyncVars

\* What the worker does once delegate.Append returned err: it prints the error
\* and goes on to the next entry.
\* Faulty variant: a worker that stops at the first error.
AfterAppendStop(err) ==
    /\ workerPc' = IF err THEN "done" ELSE "recv"
    /\ workerEntry' = NoEntry
    /\ UNCHANGED <<msgChan, delivered>>
AfterAppend(err) ==
    /\ workerPc' = "recv"
    /\ workerEntry' = NoEntry
    /\ UNCHANGED <<msgChan, delivered>>

\* a.delegate.Append(entry) returns, with or without an error.
WorkerAppendReturn ==
    /\ workerPc = "appending"
    /\ \E err \in BOOLEAN :
          /\ lastErr' = IF err THEN workerEntry ELSE lastErr
          /\ AfterAppend(err)
    /\ UNCHANGED <<capacity, chanClosed, lateAppend>>
    /\ UNCHANGED prodVars
    /\ UNCHANGED closeVars
    /\ UNCHANGED notAsyncVars

\* The range loop ends when the channel is closed and drained.
\* Faulty variant: a loop that ends at close, entries left.
RangeEndsNoDrain == chanClosed
RangeEnds == chanClosed /\ msgChan = <<>>

\* The loop ends; defer a.wg.Done().
WorkerExit ==
    /\ workerPc = "recv"
    /\ RangeEnds
    /\ workerPc' = "done"
    /\ UNCHANGED <<capacity, msgChan, chanClosed, workerEntry, delivered, lastErr,
                   lateAppend>>
    /\ UNCHANGED prodVars
    /\ UNCHANGED closeVars
    /\ UNCHANGED notAsyncVars

\* a.once.Do(f): whether this caller is the one that runs f.
\* Faulty variant: no once guard.
OnceRunsAlways == TRUE
OnceRuns == onceState = "fresh"

\* A caller enters Close: a.once.Do either runs the function or waits for the
\* run in progress (sync.Once does not return before that run has returned).
CloseCall(c) ==
    /\ closePc[c] = "idle"
    /\ IF OnceRuns
       THEN /\ onceState' = "running"
            /\ closeRan' = [closeRan EXCEPT ![c] = TRUE]
            /\ closePc' = [closePc EXCEPT ![c] = "closeChan"]
       ELSE /\ closeRan' = [closeRan EXCEPT ![c] = FALSE]
            /\ closePc' = [closePc EXCEPT ![c] = "onceWait"]
            /\ UNCHANGED onceState
    /\ UNCHANGED <<capacity, msgChan, chanClosed, closeRet, chanCloseCount, closeBacklog,
                   delegCloseCalls, delegClosing, closePanic>>
    /\ UNCHANGED workerVars
    /\ UNCHANGED prodVars
    /\ UNCHANGED notAsyncVars

\* close(a.msgChan): panics on a channel that is closed already.
CloseChan(c) ==
    /\ closePc[c] = "closeChan"
    /\ IF chanClosed
       THEN /\ closePanic' = TRUE
            /\ closePc' = [closePc EXCEPT ![c] = "panicked"]
            /\ UNCHANGED <<chanClosed, chanCloseCount, closeBacklog>>
       ELSE /\ chanClosed' = TRUE
            /\ chanCloseCount' = chanCloseCount + 1
            /\ closeBacklog' = Len(msgChan)
            /\ closePc' = [closePc EXCEPT ![c] = "wgWait"]
            /\ UNCHANGED closePanic
    /\ UNCHANGED <<capacity, msgChan, onceState, closeRan, closeRet,
                   delegCloseCalls, delegClosing>>
    /\ UNCHANGED workerVars
    /\ UNCHANGED prodVars
    /\ UNCHANGED notAsyncVars

\* a.wg.Wait() returns once the worker has called wg.Done().
\* Faulty variant: no wait for the worker.
WaitDoneAtOnce == TRUE
WaitDone == workerPc = "done"

WgWait(c) ==
    /\ closePc[c] = "wgWait"
    /\ WaitDone
    /\ closePc' = [closePc EXCEPT ![c] = "delegClose"]
    /\ UNCHANGED <<capacity, msgChan, chanClosed, onceState, closeRan,
                   closeRet, chanCloseCount, closeBacklog, delegCloseCalls, delegClosing,
                   closePanic>>
    /\ UNCHANGED workerVars
    /\ UNCHANGED prodVars
    /\ UNCHANGED notAsyncVars

\* err = a.delegate.Close() is invoked.
DelegateCloseCall(c) ==
    /\ closePc[c] = "delegClose"
    /\ delegCloseCalls' = delegCloseCalls + 1
    /\ delegClosing' = TRUE
    /\ closePc' = [closePc EXCEPT ![c] = "inDelegClose"]
    /\ UNCHANGED <<capacity, msgChan, chanClosed, onceState, closeRan,
                   closeRet, chanCloseCount, closeBacklog, closePanic>>
    /\ UNCHANGED workerVars
    /\ UNCHANGED prodVars
    /\ UNCHANGED notAsyncVars

\* a.delegate.Close() returns, once.Do returns, Close returns err.
DelegateCloseReturn(c) ==
    /\ closePc[c] = "inDelegClose"
    /\ \E err \in {"nil", "err"} : closeRet' = [closeRet EXCEPT ![c] = err]
    /\ onceState' = "done"
    /\ closePc' = [closePc EXCEPT ![c] = "returned"]
    /\ UNCHANGED <<capacity, msgChan, chanClosed, closeRan, chanCloseCount,
                   closeBacklog, delegCloseCalls, delegClosing, closePanic>>
    /\ UNCHANGED workerVars
    /\ UNCHANGED prodVars
    /\ UNCHANGED notAsyncVars

\* a.once.Do(f) of a caller that does not run f: it returns when the run has returned.
\* Faulty variant: it returns at once.
OnceDoneAtOnce == TRUE
OnceDone == onceState = "done"

\* A Close call that did not run the function: once.Do returns when the run has
\* returned, and Close returns its own err, which is nil.
OnceWaitReturn(c) ==
    /\ closePc[c] = "onceWait"
    /\ OnceDone
    /\ closeRet' = [closeRet EXCEPT ![c] = "nil"]
    /\ closePc' = [closePc EXCEPT ![c] = "returned"]
    /\ UNCHANGED <<capacity, msgChan, chanClosed, onceState, closeRan,
                   chanCloseCount, closeBacklog, delegCloseCalls, delegClosing, closePanic>>
    /\ UNCHANGED workerVars
    /\ UNCHANGED prodVars
    /\ UNCHANGED notAsyncVars

NextAsync ==
    \/ \E p \in Producers : AppendCall(p)
    \/ \E p \in Producers : ChanSend(p)
    \/ WorkerRecv
    \/ WorkerDelegateAppend
    \/ WorkerAppendReturn
    \/ WorkerExit
    \/ \E c \in Closers : CloseCall(c)
    \/ \E c \in Closers : CloseChan(c)
    \/ \E c \in Closers : WgWait(c)
    \/ \E c \in Closers : DelegateCloseCall(c)
    \/ \E c \in Closers : DelegateCloseReturn(c)
    \/ \E c \in Closers : OnceWaitReturn(c)

(***************************************************************************)
(* Filters                                                                 *)
(***************************************************************************)

\* strings.ToLower on the markers and the filter types of the model.
ToLower(s) ==
    CASE s = "AUDIT" -> "audit"
      [] s = "PERF" -> "perf"
      [] s = "THRESHOLD" -> "threshold"
      [] OTHER -> s

\* strings.ToUpper on the filter results of the model.
ToUpper(s) ==
    CASE s = "neutral" -> "NEUTRAL"
      [] s = "deny" -> "DENY"
      [] s = "accept" -> "ACCEPT"
      [] OTHER -> s

\* strings.EqualFold
EqualFold(a, b) == ToLower(a) = ToLower(b)

\* A sink without a filter (b.filter == nil).
NilFilter == [kind |-> "nil"]

NewLevelFilter(minLevel) ==
    [kind |-> "level", minLevel |-> minLevel, maxLevel |-> OFF,
     onMatch |-> "ACCEPT", onMismatch |-> "DENY"]

NewThresholdFilter(lvl) == NewLevelFilter(lvl)

NewMarkerFilter(marker) ==
    [kind |-> "marker", marker |-> marker, onMatch |-> "ACCEPT", onMismatch |-> "NEUTRAL"]

DenyAllFilter == [kind |-> "denyAll"]

AcceptAllFilter == [kind |-> "acceptAll"]

LevelFilterDecide(f, entry) ==
    IF entry.level >= f.minLevel /\ (f.maxLevel = OFF \/ entry.level <= f.maxLevel)
    THEN f.onMatch
    ELSE f.onMismatch

MarkerFilterDecide(f, entry) ==
    IF EqualFold(entry.marker, f.marker) THEN f.onMatch ELSE f.onMismatch

NewCompositeFilter(mode, filters) ==
    [kind |-> "composite", mode |-> mode, filters |-> filters]

RECURSIVE Decide(_, _)
RECURSIVE AllLoop(_, _, _)
RECURSIVE AnyLoop(_, _, _)

\* case ALL: the loop from child i on; DENY at the first child that returns
\* DENY, ACCEPT when the loop ends.
\* Faulty variant: DENY at the first child that does not return ACCEPT.
AllLoopAcceptOnly(filters, entry, i) ==
    IF i > Len(filters) THEN "ACCEPT"
    ELSE IF Decide(filters[i], entry) # "ACCEPT" THEN "DENY"
    ELSE AllLoop(filters, entry, i + 1)
AllLoop(filters, entry, i) ==
    IF i > Len(filters) THEN "ACCEPT"
    ELSE IF Decide(filters[i], entry) = "DENY" THEN "DENY"
    ELSE AllLoop(filters, entry, i + 1)

\* case ANY: the loop from child i on; ACCEPT at the first child that returns
\* ACCEPT, DENY when the loop ends.
\* Faulty variant: ACCEPT at the first child that does not return DENY.
AnyLoopNotDeny(filters, entry, i) ==
    IF i > Len(filters) THEN "DENY"
    ELSE IF Decide(filters[i], entry) # "DENY" THEN "ACCEPT"
    ELSE AnyLoop(filters, entry, i + 1)
AnyLoop(filters, entry, i) ==
    IF i > Len(filters) THEN "DENY"
    ELSE IF Decide(filters[i], entry) = "ACCEPT" THEN "ACCEPT"
    ELSE AnyLoop(filters, entry, i + 1)

\* CompositeFilter.Decide
CompositeFilterDecide(f, entry) ==
    IF Len(f.filters) = 0 THEN "NEUTRAL"
    ELSE CASE f.mode = "ALL" -> AllLoop(f.filters, entry, 1)
           [] f.mode = "ANY" -> AnyLoop(f.filters, entry, 1)
           [] OTHER -> "NEUTRAL"

\* Filter.Decide, by the filter's type.
Decide(f, entry) ==
    CASE f.kind = "level" -> LevelFilterDecide(f, entry)
      [] f.kind = "marker" -> MarkerFilterDecide(f, entry)
      [] f.kind = "denyAll" -> "DENY"
      [] f.kind = "acceptAll" -> "ACCEPT"
      [] f.kind = "composite" -> CompositeFilterDecide(f, entry)

\* BaseAppender.applyFilter
\* Faulty variant: NEUTRAL treated as DENY.
applyFilterAcceptOnly(filter, entry) ==
    IF filter = NilFilter THEN TRUE ELSE Decide(filter, entry) = "ACCEPT"
applyFilter(filter, entry) ==
    IF filter = NilFilter THEN TRUE ELSE Decide(filter, entry) # "DENY"

(***************************************************************************)
(* Logger                                                                  *)
(***************************************************************************)

\* The filters a sink is configured with before it is registered.
SinkFilters ==
    {NilFilter, NewThresholdFilter(WARN), NewMarkerFilter("audit"), DenyAllFilter}

\* The levels SetLevel is called with.
SetLevels == {DEBUG, INFO, ERROR, OFF}

\* The levels and markers of the log calls, by the logger used: Logger.Debug,
\* Info, Warn, Error; MarkerLogger.Info, Error; FieldLogger.Info, Error.
CallLevels(via) == IF via = "Logger" THEN {DEBUG, INFO, WARN, ERROR} ELSE {INFO, ERROR}
CallMarkers(via) == IF via = "Marker" THEN {"AUDIT", "perf"} ELSE {""}

\* No Entry has been built (a nil *Entry).
NilEntry == [kind |-> "nil"]

\* NewLogger; no log call has been made.
LoggerInit ==
    /\ level = INFO
    /\ appenders = <<>>
    /\ sinkFilter = <<>>
    /\ callPc = "idle"
    /\ callVia = "Logger"
    /\ callLevel = INFO
    /\ callMarker = ""
    /\ callGate = INFO
    /\ callRegistered = <<>>
    /\ callEntry = NilEntry
    /\ callSnapshot = <<>>
    /\ callResults = <<>>

configVars == <<level, appenders, sinkFilter>>
callVars == <<callPc, callVia, callLevel, callMarker, callGate, callRegistered,
              callEntry, callSnapshot, callResults>>

\* Logger.SetLevel, from any goroutine.
SetLevel(lvl) ==
    /\ level' = lvl
    /\ UNCHANGED <<appenders, sinkFilter>>
    /\ UNCHANGED callVars
    /\ UNCHANGED notLoggerVars

\* Logger.AddAppender, from any goroutine, with a sink that carries the filter f.
AddAppender(f) ==
    /\ Len(appenders) < MaxSinks
    /\ appenders' = Append(appenders, Len(appenders) + 1)
    /\ sinkFilter' = Append(sinkFilter, f)
    /\ UNCHANGED level
    /\ UNCHANGED callVars
    /\ UNCHANGED notLoggerVars

\* Logger.IsEnabled
\* Faulty variant: no level gate.
IsEnabledAlways(lvl, current) == TRUE
IsEnabled(lvl, current) == lvl >= current

\* A log call enters Logger.log (directly or from a MarkerLogger) or
\* FieldLogger.log and passes or fails the level gate. Log calls share no state
\* but the configuration they read, so one call at a time is followed, with the
\* configuration changing under it.
LogGate(via, lvl, marker) ==
    /\ callPc \in {"idle", "returned"}
    /\ callVia' = via
    /\ callLevel' = lvl
    /\ callMarker' = marker
    /\ callGate' = level
    /\ callRegistered' = appenders
    /\ callEntry' = NilEntry
    /\ callSnapshot' = <<>>
    /\ callResults' = <<>>
    /\ callPc' = IF ~IsEnabled(lvl, level) THEN "returned"
                 ELSE IF via = "Field" THEN "build" ELSE "snapshot"
    /\ UNCHANGED configVars
    /\ UNCHANGED notLoggerVars

\* appenders := l.appenders, under the read lock.
LogSnapshot ==
    /\ callPc = "snapshot"
    /\ callSnapshot' = appenders
    /\ callPc' = IF callVia = "Field" THEN "fanout" ELSE "build"
    /\ UNCHANGED <<callVia, callLevel, callMarker, callGate, callRegistered, callEntry,
                   callResults>>
    /\ UNCHANGED configVars
    /\ UNCHANGED notLoggerVars

\* entry := &Entry{...}
LogBuild ==
    /\ callPc = "build"
    /\ callEntry' = [level |-> callLevel, marker |-> callMarker]
    /\ callPc' = IF callVia = "Field" THEN "snapshot" ELSE "fanout"
    /\ UNCHANGED <<callVia, callLevel, callMarker, callGate, callRegistered,
                   callSnapshot, callResults>>
    /\ UNCHANGED configVars
    /\ UNCHANGED notLoggerVars

\* for _, appender := range appenders: whether the loop is over.
\* Faulty variant: a loop that breaks at the first error.
FanoutDoneOnError ==
    \/ Len(callResults) = Len(callSnapshot)
    \/ /\ callResults # <<>>
       /\ callResults[Len(callResults)].err
FanoutDone == Len(callResults) = Len(callSnapshot)

\* A sink's Append(entry) (Console, File, RollingFile, Writer): DENY returns nil
\* and writes nothing; otherwise the sink opens, rolls over and writes, and any
\* of these may fail, in which case Append returns the error.
SinkAppend(s, entry, ioFails) ==
    [sink |-> s,
     decision |-> IF sinkFilter[s] = NilFilter THEN "none" ELSE Decide(sinkFilter[s], entry),
     written |-> applyFilter(sinkFilter[s], entry) /\ ~ioFails,
     err |-> applyFilter(sinkFilter[s], entry) /\ ioFails]

\* _ = appender.Append(entry), for the next sink of the copy.
LogAppend ==
    /\ callPc = "fanout"
    /\ ~FanoutDone
    /\ \E ioFails \in BOOLEAN :
          callResults' = Append(callResults,
              SinkAppend(callSnapshot[Len(callResults) + 1], callEntry, ioFails))
    /\ UNCHANGED <<callPc, callVia, callLevel, callMarker, callGate, callRegistered,
                   callEntry, callSnapshot>>
    /\ UNCHANGED configVars
    /\ UNCHANGED notLoggerVars

\* The loop is over and the log call returns.
LogReturn ==
    /\ callPc = "fanout"
    /\ FanoutDone
    /\ callPc' = "returned"
    /\ UNCHANGED <<callVia, callLevel, callMarker, callGate, callRegistered, callEntry,
                   callSnapshot, callResults>>
    /\ UNCHANGED configVars
    /\ UNCHANGED notLoggerVars

NextLogger ==
    \/ \E lvl \in SetLevels : SetLevel(lvl)
    \/ \E f \in SinkFilters : AddAppender(f)
    \/ \E via \in {"Logger", "Marker", "Field"} :
          \E lvl \in CallLevels(via), marker \in CallMarkers(via) :
             LogGate(via, lvl, marker)
    \/ LogSnapshot
    \/ LogBuild
    \/ LogAppend
    \/ LogReturn

(***************************************************************************)
(* BurstFilter                                                             *)
(***************************************************************************)

Deciders == 1..NumDeciders
NoDecider == 0

\* f.tokens is a float64: the model counts tokens in units of 1/TokenUnit, and
\* f.rate in such units per tick of the clock.
TokenUnit == 2

\* NewBurstFilter(level, rate, maxBurst), called at time now.
NewBurstFilter(lvl, rate, maxBurst, now) ==
    [level |-> lvl, rate |-> rate, maxBurst |-> maxBurst,
     onMatch |-> "ACCEPT", onMismatch |-> "DENY",
     tokens |-> maxBurst * TokenUnit, lastRefill |-> now]

\* ParseFilter, type "burst": any rate and max_burst are taken as they are (0 when
\* missing), and on_match / on_mismatch replace the defaults.
ParseFilterBurst(lvl, rate, maxBurst, onMatch, onMismatch, now) ==
    [NewBurstFilter(lvl, rate, maxBurst, now) EXCEPT
        !.onMatch = onMatch, !.onMismatch = onMismatch]

\* The on_match / on_mismatch pairs the filters of the model are built with.
BurstResults == {<<"ACCEPT", "DENY">>, <<"NEUTRAL", "DENY">>}

\* The levels of the entries Decide is called with.
DecideLevels == {INFO, ERROR}

\* No Decide call has been made on the filter.
BurstFresh ==
    /\ burstMu = NoDecider
    /\ clock = 0
    /\ decidePc = [c \in Deciders |-> "idle"]
    /\ decideLevel = [c \in Deciders |-> OFF]
    /\ decideResult = [c \in Deciders |-> "none"]
    /\ decideCalls = 0
    /\ burstLog = <<>>
    /\ burstTimes = <<>>
    /\ elapsedSeen = FALSE

BurstInit ==
    /\ \E rate \in -1..MaxRate, maxBurst \in -1..MaxBurstSize, res \in BurstResults :
          burst = ParseFilterBurst(WARN, rate, maxBurst, res[1], res[2], 0)
    /\ BurstFresh

deciderVars == <<decidePc, decideLevel, decideResult, decideCalls>>

\* entry.Level < f.level
\* Faulty variant: the comparison reversed.
BelowLevelReversed(entryLevel, lvl) == entryLevel > lvl
BelowLevel(entryLevel, lvl) == entryLevel < lvl

\* A caller calls f.Decide(entry): below the level it returns NEUTRAL at once,
\* otherwise it goes on to f.mu.Lock().
DecideCall(c, lvl) ==
    /\ decidePc[c] \in {"idle", "returned"}
    /\ decideCalls < MaxDecides
    /\ decideCalls' = decideCalls + 1
    /\ decideLevel' = [decideLevel EXCEPT ![c] = lvl]
    /\ IF BelowLevel(lvl, burst.level)
       THEN /\ decidePc' = [decidePc EXCEPT ![c] = "returned"]
            /\ decideResult' = [decideResult EXCEPT ![c] = "NEUTRAL"]
       ELSE /\ decidePc' = [decidePc EXCEPT ![c] = "lock"]
            /\ decideResult' = [decideResult EXCEPT ![c] = "none"]
    /\ UNCHANGED <<burst, burstMu, clock, burstLog, burstTimes, elapsedSeen>>
    /\ UNCHANGED notBurstVars

\* f.mu is free.
\* Faulty variant: a lock that excludes nobody.
MuFreeAlways == TRUE
MuFree == burstMu = NoDecider

\* f.mu.Lock()
MuLock(c) ==
    /\ decidePc[c] = "lock"
    /\ MuFree
    /\ burstMu' = c
    /\ decidePc' = [decidePc EXCEPT ![c] = "refill"]
    /\ UNCHANGED <<burst, clock, decideLevel, decideResult, decideCalls, burstLog, burstTimes,
                   elapsedSeen>>
    /\ UNCHANGED notBurstVars

\* f.tokens += elapsed * f.rate, clamped to maxBurst.
\* Faulty variants: no clamp; a refill that does not wait for the time to pass.
RefilledAtOnce(tokens, elapsed, rate, maxBurst) ==
    IF tokens + (elapsed + 1) * rate > maxBurst * TokenUnit
    THEN maxBurst * TokenUnit
    ELSE tokens + (elapsed + 1) * rate
RefilledUnclamped(tokens, elapsed, rate, maxBurst) == tokens + elapsed * rate
Refilled(tokens, elapsed, rate, maxBurst) ==
    IF tokens + elapsed * rate > maxBurst * TokenUnit
    THEN maxBurst * TokenUnit
    ELSE tokens + elapsed * rate

\* f.tokens >= 1
\* Faulty variant: more than one token required.
TokenAvailableAboveOne(tokens) == tokens > TokenUnit
TokenAvailable(tokens) == tokens >= TokenUnit

\* now := time.Now(); the refill; f.lastRefill = now; the test f.tokens >= 1.
Refill(c) ==
    /\ decidePc[c] = "refill"
    /\ LET now == clock
           elapsed == now - burst.lastRefill
           tokens == Refilled(burst.tokens, elapsed, burst.rate, burst.maxBurst)
       IN /\ burst' = [burst EXCEPT !.tokens = tokens, !.lastRefill = now]
          /\ elapsedSeen' = (elapsedSeen \/ elapsed # 0)
          /\ decidePc' = [decidePc EXCEPT ![c] =
                             IF TokenAvailable(tokens) THEN "take" ELSE "refuse"]
    /\ UNCHANGED <<burstMu, clock, decideLevel, decideResult, decideCalls, burstLog,
                   burstTimes>>
    /\ UNCHANGED notBurstVars

\* f.tokens--; return f.onMatch (the deferred f.mu.Unlock() runs).
TakeToken(c) ==
    /\ decidePc[c] = "take"
    /\ burst' = [burst EXCEPT !.tokens = burst.tokens - TokenUnit]
    /\ decideResult' = [decideResult EXCEPT ![c] = burst.onMatch]
    /\ burstLog' = Append(burstLog, burst.onMatch)
    /\ burstTimes' = Append(burstTimes, burst.lastRefill)
    /\ burstMu' = NoDecider
    /\ decidePc' = [decidePc EXCEPT ![c] = "returned"]
    /\ UNCHANGED <<clock, decideLevel, decideCalls, elapsedSeen>>
    /\ UNCHANGED notBurstVars

\* return f.onMismatch (the deferred f.mu.Unlock() runs).
RefuseToken(c) ==
    /\ decidePc[c] = "refuse"
    /\ decideResult' = [decideResult EXCEPT ![c] = burst.onMismatch]
    /\ burstLog' = Append(burstLog, burst.onMismatch)
    /\ burstTimes' = Append(burstTimes, burst.lastRefill)
    /\ burstMu' = NoDecider
    /\ decidePc' = [decidePc EXCEPT ![c] = "returned"]
    /\ UNCHANGED <<burst, clock, decideLevel, decideCalls, elapsedSeen>>
    /\ UNCHANGED notBurstVars

\* Time passes.
Tick ==
    /\ clock < MaxTime
    /\ clock' = clock + 1
    /\ UNCHANGED <<burst, burstMu, burstLog, burstTimes, elapsedSeen>>
    /\ UNCHANGED deciderVars
    /\ UNCHANGED notBurstVars

NextBurst ==
    \/ \E c \in Deciders, lvl \in DecideLevels : DecideCall(c, lvl)
    \/ \E c \in Deciders : MuLock(c)
    \/ \E c \in Deciders : Refill(c)
    \/ \E c \in Deciders : TakeToken(c)
    \/ \E c \in Deciders : RefuseToken(c)
    \/ Tick

(***************************************************************************)
(* CompositeFilter                                                         *)
(***************************************************************************)

CompositeModes == {"ALL", "ANY"}

\* The filters given to NewCompositeFilter and Add: leaf filters that return
\* ACCEPT, DENY or NEUTRAL depending on the entry, and a composite without
\* children.
ChildFilters ==
    {NewThresholdFilter(WARN), NewMarkerFilter("audit"), DenyAllFilter, AcceptAllFilter,
     NewCompositeFilter("ALL", <<>>)}

\* The entries Decide is called with.
CompositeEntries == [level : {INFO, ERROR}, marker : {"", "AUDIT"}]

\* NewCompositeFilter(mode, filters...), with no child or one child.
CompositeInit ==
    /\ \E mode \in CompositeModes :
          \E filters \in {<<>>} \cup {<<f>> : f \in ChildFilters} :
             composite = NewCompositeFilter(mode, filters)
    /\ compEntry = NilEntry
    /\ compResult = "none"

\* f.Add(filter)
CompositeAdd(filter) ==
    /\ Len(composite.filters) < MaxChildren
    /\ composite' = [composite EXCEPT !.filters = Append(composite.filters, filter)]
    /\ compEntry' = NilEntry
    /\ compResult' = "none"
    /\ UNCHANGED notCompositeVars

\* f.Decide(entry)
CompositeDecide(entry) ==
    /\ compEntry' = entry
    /\ compResult' = Decide(composite, entry)
    /\ UNCHANGED composite
    /\ UNCHANGED notCompositeVars

NextComposite ==
    \/ \E filter \in ChildFilters : CompositeAdd(filter)
    \/ \E entry \in CompositeEntries : CompositeDecide(entry)

(***************************************************************************)
(* RollingFileAppender                                                     *)
(***************************************************************************)

Writers == 1..NumWriters
NoWriter == 0

\* A file name is the sequence of its parts, the dots included:
\* "app.log" is <<"app", ".", "log">>. NoHandle is r.file == nil.
NoHandle == <<>>

\* The file names the sinks of the model are created with.
Filenames == {<<"app", ".", "log">>, <<"app">>}

\* The index of the last dot of a name, 0 when it has none.
LastDot(name) ==
    IF \E i \in 1..Len(name) : name[i] = "."
    THEN CHOOSE i \in 1..Len(name) :
            name[i] = "." /\ \A j \in (i + 1)..Len(name) : name[j] # "."
    ELSE 0

\* filepath.Ext
Ext(name) == IF LastDot(name) = 0 THEN <<>> ELSE SubSeq(name, LastDot(name), Len(name))

NewSizeBasedPolicy(maxBytes) == [kind |-> "size", maxSize |-> maxBytes]

\* NewTimeBasedPolicy("hourly") at time now. The clock of the model counts
\* hours: the interval is one unit, the pattern "2006-01-02-15" names the hour.
NewTimeBasedPolicy(now) == [kind |-> "time", interval |-> 1, lastRoll |-> now]

\* time.Now().Format("2006-01-02-15"), hour t of the first day.
FormatHour(t) == "2006-01-02-" \o (IF t < 10 THEN "0" ELSE "") \o ToString(t)

\* The size of a file: the bytes of the entries written to it.
RECURSIVE SumSizes(_)
SumSizes(data) == IF data = <<>> THEN 0 ELSE Head(data).size + SumSizes(Tail(data))

FileSize(f) == SumSizes(f.data)

\* RollingPolicy.ShouldRoll on the live file's FileInfo.
\* Faulty variant: a size policy that triggers only above maxSize.
PolicyShouldRollAbove(policy, size) ==
    CASE policy.kind = "size" -> size > policy.maxSize
      [] policy.kind = "time" -> fsNow - policy.lastRoll >= policy.interval
PolicyShouldRoll(policy, size) ==
    CASE policy.kind = "size" -> size >= policy.maxSize
      [] policy.kind = "time" -> fsNow - policy.lastRoll >= policy.interval

\* RollingPolicy.GetNextFileName: name, ".", index, ext (SizeBasedPolicy);
\* name, ".", timestamp, ext (TimeBasedPolicy).
GetNextFileName(policy, baseName, index) ==
    CASE policy.kind = "size" ->
        SubSeq(baseName, 1, Len(baseName) - Len(Ext(baseName)))
            \o <<".", ToString(index)>> \o Ext(baseName)
      [] policy.kind = "time" ->
        SubSeq(baseName, 1, Len(baseName) - Len(Ext(baseName)))
            \o <<".", FormatHour(fsNow)>> \o Ext(baseName)

\* What GetNextFileName leaves of the policy it is called on: a TimeBasedPolicy
\* sets its lastRoll to time.Now().
AfterGetNextFileName(policy) ==
    IF policy.kind = "time" THEN [policy EXCEPT !.lastRoll = fsNow] ELSE policy

\* rollover(): the backup name, from the first policy (or filename.index).
\* Faulty variant: the name is asked of the last policy.
NewNameOfLast(policies, filename, index) ==
    IF Len(policies) > 0
    THEN GetNextFileName(policies[Len(policies)], filename, index)
    ELSE filename \o <<".", ToString(index)>>
NewName(policies, filename, index) ==
    IF Len(policies) > 0
    THEN GetNextFileName(policies[1], filename, index)
    ELSE filename \o <<".", ToString(index)>>

\* rollover(): the policies after the backup name was asked of the first.
AfterNewName(policies) ==
    IF Len(policies) > 0
    THEN [policies EXCEPT ![1] = AfterGetNextFileName(policies[1])]
    ELSE policies

\* shouldRoll(entry), with the file open and Stat succeeding: no policy, no
\* rollover; otherwise the first policy that triggers decides.
\* Faulty variant: a rollover when no policy has refused it.
shouldRollByDefault(policies, size) ==
    \A i \in 1..Len(policies) : PolicyShouldRoll(policies[i], size)
shouldRoll(policies, size) ==
    IF Len(policies) = 0 THEN FALSE
    ELSE \E i \in 1..Len(policies) : PolicyShouldRoll(policies[i], size)

\* os.OpenFile(name, O_CREATE|O_WRONLY|O_APPEND): the directory afterwards. An
\* existing file is left as it is, a missing one is created empty.
\* Faulty variant: O_TRUNC, an existing file is emptied.
OpenFileTrunc(d, name, now) ==
    [n \in DOMAIN d \cup {name} |->
        IF n = name THEN [data |-> <<>>, mtime |-> now] ELSE d[n]]
OpenFile(d, name, now) ==
    IF name \in DOMAIN d THEN d
    ELSE [n \in DOMAIN d \cup {name} |->
             IF n = name THEN [data |-> <<>>, mtime |-> now] ELSE d[n]]

\* os.Rename(from, to): the directory afterwards. An existing file at the new
\* name is replaced; the file keeps its data and its modification time.
Rename(d, from, to) ==
    [n \in (DOMAIN d \ {from}) \cup {to} |-> IF n = to THEN d[from] ELSE d[n]]

\* file.Write(data) on the handle opened under name.
WriteFile(d, name, entry, now) ==
    [d EXCEPT ![name] = [data |-> Append(d[name].data, entry), mtime |-> now]]

\* os.Remove of a set of names.
RemoveFiles(d, names) == [n \in DOMAIN d \ names |-> d[n]]

\* cleanup(): the files of the directory that count as backups of base: the
\* names longer than base that start with base.
BackupNames(d, base) ==
    {n \in DOMAIN d : Len(n) > Len(base) /\ SubSeq(n, 1, Len(base)) = base}

\* sort.Slice by modification time, oldest first: the orders it can produce
\* (files with equal times come in any order).
SortedByModTime(d, names) ==
    {order \in [1..Cardinality(names) -> names] :
        /\ \A i, j \in DOMAIN order : i # j => order[i] # order[j]
        /\ \A i, j \in DOMAIN order : i < j => d[order[i]].mtime <= d[order[j]].mtime}

\* for len(backups) > r.maxBackups && r.maxBackups > 0: remove backups[0].
\* Faulty variant: the backups beyond maxBackups are dropped from the end.
RECURSIVE CountStep(_, _)
CountStepNewest(backups, maxBackups) ==
    IF Len(backups) > maxBackups /\ maxBackups > 0
    THEN SubSeq(backups, 1, maxBackups)
    ELSE backups
CountStep(backups, maxBackups) ==
    IF Len(backups) > maxBackups /\ maxBackups > 0
    THEN CountStep(Tail(backups), maxBackups)
    ELSE backups

\* if r.maxAge > 0: remove the backups modified before now - maxAge.
AgeStep(d, backups, maxAge, now) ==
    IF maxAge > 0
    THEN SelectSeq(backups, LAMBDA n : ~(d[n].mtime < now - maxAge))
    ELSE backups

RECURSIVE TotalSize(_, _)
TotalSize(d, backups) ==
    IF backups = <<>> THEN 0 ELSE FileSize(d[Head(backups)]) + TotalSize(d, Tail(backups))

\* for totalSize > r.totalMaxSize && len(backups) > 0: remove backups[0].
\* Faulty variant: the loop goes on while the total has not fallen below the
\* budget.
RECURSIVE SizeLoop(_, _, _)
SizeLoopAtBudget(d, backups, totalMaxSize) ==
    IF TotalSize(d, backups) >= totalMaxSize /\ Len(backups) > 0
    THEN SizeLoop(d, Tail(backups), totalMaxSize)
    ELSE backups
SizeLoop(d, backups, totalMaxSize) ==
    IF TotalSize(d, backups) > totalMaxSize /\ Len(backups) > 0
    THEN SizeLoop(d, Tail(backups), totalMaxSize)
    ELSE backups

SizeStep(d, backups, totalMaxSize) ==
    IF totalMaxSize > 0 THEN SizeLoop(d, backups, totalMaxSize) ELSE backups

\* cleanup(): the backups it keeps, given the order the sort produced.
CleanupKeeps(d, cfg, order, now) ==
    IF cfg.maxBackups <= 0 /\ cfg.totalMaxSize <= 0
    THEN Range(order)
    ELSE Range(SizeStep(d, AgeStep(d, CountStep(order, cfg.maxBackups), cfg.maxAge, now),
                        cfg.totalMaxSize))

\* NewRollingFileAppender: maxBackups
DefaultMaxBackups == 7

\* The triggering policies of the sinks of the model: none, or one size policy.
PolicyLists == {<<>>, <<NewSizeBasedPolicy(2)>>}

\* maxBackups, maxAge, totalMaxSize of the sinks of the model.
CleanupLimits == {<<DefaultMaxBackups, 0, 0>>, <<1, 1, 2>>}

\* NewRollingFileAppender(filename) with WithFilter, WithPolicy, WithMaxBackups,
\* WithMaxAge, WithTotalMaxSize.
NewRollingFileAppender(filename, policies, limits) ==
    [filename |-> filename, filter |-> NewThresholdFilter(WARN), policies |-> policies,
     maxBackups |-> limits[1], maxAge |-> limits[2], totalMaxSize |-> limits[3]]

\* The bytes layout.Format produces for the entries of the model.
EntrySizes == {1, 2}

\* A live file left by an earlier run of the program.
OldFile == [data |-> <<[id |-> 0, size |-> 2, level |-> ERROR, marker |-> ""]>>, mtime |-> 0]

\* What the Append call inside the lock has done so far: the size shouldRoll
\* found, the name it renamed the live file to, whether the rename failed,
\* (and the directory as it was before that rename), whether cleanup() ran,
\* where it wrote its entry (file and position), and what it is about to return.
FreshCur ==
    [found |-> -1, renamedTo |-> NoHandle, renameFailed |-> FALSE,
     diskAtRename |-> [n \in {} |-> OldFile], cleaned |-> FALSE,
     wroteTo |-> NoHandle, wrotePos |-> -1, ret |-> "none"]

\* No call has been made on the sink.
RollingFresh ==
    /\ file = NoHandle
    /\ currentIndex = 0
    /\ rollMu = NoWriter
    /\ fsNow = 0
    /\ wrPc = [w \in Writers |-> "idle"]
    /\ wrEntry = [w \in Writers |-> NilEntry]
    /\ cur = FreshCur
    /\ appendCalls = 0
    /\ faults = 0
    /\ renameCount = 0
    /\ renameFailures = 0
    /\ cleanupRuns = 0
    /\ removedFiles = {}
    /\ accepted = {}
    /\ lastRollover = -1
    /\ rollCloseDid = "none"

\* The policy lists with a time policy, created at time now.
TimedPolicyLists(now) ==
    {<<NewTimeBasedPolicy(now)>>,
     <<NewSizeBasedPolicy(2), NewTimeBasedPolicy(now)>>,
     <<NewTimeBasedPolicy(now), NewSizeBasedPolicy(2)>>}

\* A sink with a time policy, created at time 0, no call made on it.
PoliciesInit ==
    /\ \E policies \in TimedPolicyLists(0) :
          rollCfg = NewRollingFileAppender(<<"app", ".", "log">>, policies,
                                           <<DefaultMaxBackups, 0, 0>>)
    /\ disk \in {[n \in {} |-> OldFile], [n \in {<<"app", ".", "log">>} |-> OldFile]}
    /\ RollingFresh

RollingInit ==
    /\ \E filename \in Filenames, policies \in PolicyLists, limits \in CleanupLimits :
          /\ rollCfg = NewRollingFileAppender(filename, policies, limits)
          /\ disk \in {[n \in {} |-> OldFile], [n \in {filename} |-> OldFile]}
    /\ RollingFresh

sinkVars == <<rollCfg, file, currentIndex, disk>>
writerVars == <<wrPc, wrEntry>>
rollHistory == <<renameCount, renameFailures, cleanupRuns, removedFiles, lastRollover>>

\* Whether the next file-system call may fail (k failures are still to come in
\* this step).
FaultChoices(k) == IF faults + k <= MaxFaults THEN BOOLEAN ELSE {FALSE}

\* open(): nothing when the handle is there; otherwise os.OpenFile, which fails
\* or leaves the sink with a handle on filename.
open(handle, d, fail) ==
    IF handle # NoHandle THEN [file |-> handle, disk |-> d, err |-> FALSE]
    ELSE IF fail THEN [file |-> NoHandle, disk |-> d, err |-> TRUE]
    ELSE [file |-> rollCfg.filename, disk |-> OpenFile(d, rollCfg.filename, fsNow),
          err |-> FALSE]

\* A caller calls r.Append(entry): a DENY of the filter returns nil at once and
\* changes nothing, otherwise the caller goes on to r.mu.Lock(). (The id of an
\* entry is its place among the entries that passed the filter.)
RollAppendCall(w, size, lvl) ==
    /\ wrPc[w] = "idle"
    /\ appendCalls < MaxAppends
    /\ LET entry == [id |-> appendCalls + 1, size |-> size, level |-> lvl, marker |-> ""]
       IN IF ~applyFilter(rollCfg.filter, entry)
          THEN UNCHANGED <<wrPc, wrEntry, appendCalls>>
          ELSE /\ wrPc' = [wrPc EXCEPT ![w] = "lock"]
               /\ wrEntry' = [wrEntry EXCEPT ![w] = entry]
               /\ appendCalls' = appendCalls + 1
    /\ UNCHANGED <<rollMu, fsNow, cur, faults, accepted>>
    /\ UNCHANGED sinkVars
    /\ UNCHANGED rollHistory
    /\ UNCHANGED rollCloseDid
    /\ UNCHANGED notRollingVars

\* r.mu.Lock() returns only while no call holds r.mu.
\* Faulty variant: a lock that never makes a caller wait.
RollMuFreeAlways == TRUE
RollMuFree == rollMu = NoWriter

\* r.mu.Lock()
RollLock(w) ==
    /\ wrPc[w] = "lock"
    /\ RollMuFree
    /\ rollMu' = w
    /\ wrPc' = [wrPc EXCEPT ![w] = "open"]
    /\ rollCloseDid' = "none"
    /\ UNCHANGED cur
    /\ UNCHANGED <<wrEntry, fsNow, appendCalls, faults, accepted>>
    /\ UNCHANGED sinkVars
    /\ UNCHANGED rollHistory
    /\ UNCHANGED notRollingVars

\* if err := r.open(); err != nil { return err }
RollOpen(w) ==
    /\ wrPc[w] = "open"
    /\ \E fail \in FaultChoices(1) :
          LET o == open(file, disk, fail)
          IN /\ file' = o.file
             /\ disk' = o.disk
             /\ faults' = IF o.err THEN faults + 1 ELSE faults
             /\ cur' = [cur EXCEPT !.ret = IF o.err THEN "err" ELSE "none"]
             /\ wrPc' = [wrPc EXCEPT ![w] = IF o.err THEN "unlock" ELSE "shouldRoll"]
    /\ UNCHANGED <<rollCfg, currentIndex, rollMu, fsNow, wrEntry, appendCalls, accepted>>
    /\ UNCHANGED rollHistory
    /\ UNCHANGED rollCloseDid
    /\ UNCHANGED notRollingVars

\* if r.shouldRoll(entry): r.file.Stat() and the policies.
RollShouldRoll(w) ==
    /\ wrPc[w] = "shouldRoll"
    /\ IF file = NoHandle \/ file \notin DOMAIN disk
       THEN /\ wrPc' = [wrPc EXCEPT ![w] = "write"]
            /\ UNCHANGED cur
       ELSE LET size == FileSize(disk[file])
            IN /\ cur' = [cur EXCEPT !.found = size]
               /\ wrPc' = [wrPc EXCEPT ![w] =
                              IF shouldRoll(rollCfg.policies, size) THEN "rollover"
                              ELSE "write"]
    /\ UNCHANGED <<rollMu, fsNow, wrEntry, appendCalls, faults, accepted>>
    /\ UNCHANGED sinkVars
    /\ UNCHANGED rollHistory
    /\ UNCHANGED rollCloseDid
    /\ UNCHANGED notRollingVars

\* rollover() up to the rename: close the handle, r.currentIndex++, the backup
\* name, os.Rename. When the rename fails: r.open() (its error is dropped) and
\* the rename's error is returned by rollover and by Append.
Rollover(w) ==
    /\ wrPc[w] = "rollover"
    /\ currentIndex' = currentIndex + 1
    /\ rollCfg' = [rollCfg EXCEPT !.policies = AfterNewName(rollCfg.policies)]
    /\ LET newName == NewName(rollCfg.policies, rollCfg.filename, currentIndex + 1)
       IN \E fail \in FaultChoices(1) :
             IF fail
             THEN \E reopenFails \in FaultChoices(2) :
                     LET o == open(NoHandle, disk, reopenFails)
                     IN /\ file' = o.file
                        /\ disk' = o.disk
                        /\ faults' = faults + 1 + (IF o.err THEN 1 ELSE 0)
                        /\ renameFailures' = renameFailures + 1
                        /\ cur' = [cur EXCEPT !.renameFailed = TRUE, !.ret = "err",
                                              !.diskAtRename = disk]
                        /\ wrPc' = [wrPc EXCEPT ![w] = "unlock"]
                        /\ UNCHANGED renameCount
             ELSE /\ file' = NoHandle
                  /\ disk' = Rename(disk, rollCfg.filename, newName)
                  /\ renameCount' = renameCount + 1
                  /\ cur' = [cur EXCEPT !.renamedTo = newName]
                  /\ wrPc' = [wrPc EXCEPT ![w] = "cleanup"]
                  /\ UNCHANGED <<faults, renameFailures>>
    /\ UNCHANGED <<rollMu, fsNow, wrEntry, appendCalls, cleanupRuns, removedFiles,
                   accepted, lastRollover>>
    /\ UNCHANGED rollCloseDid
    /\ UNCHANGED notRollingVars

\* r.cleanup()
RollCleanup(w) ==
    /\ wrPc[w] = "cleanup"
    /\ LET backups == BackupNames(disk, rollCfg.filename)
       IN \E order \in SortedByModTime(disk, backups) :
             LET gone == backups \ CleanupKeeps(disk, rollCfg, order, fsNow)
             IN /\ disk' = RemoveFiles(disk, gone)
                /\ removedFiles' = removedFiles \cup gone
    /\ cleanupRuns' = cleanupRuns + 1
    /\ cur' = [cur EXCEPT !.cleaned = TRUE]
    /\ wrPc' = [wrPc EXCEPT ![w] = "reopen"]
    /\ UNCHANGED <<rollCfg, file, currentIndex, rollMu, fsNow, wrEntry,
                   appendCalls, faults, renameCount, renameFailures, accepted, lastRollover>>
    /\ UNCHANGED rollCloseDid
    /\ UNCHANGED notRollingVars

\* return r.open(), the last statement of rollover(); Append returns its error.
RollReopen(w) ==
    /\ wrPc[w] = "reopen"
    /\ \E fail \in FaultChoices(1) :
          LET o == open(file, disk, fail)
          IN /\ file' = o.file
             /\ disk' = o.disk
             /\ faults' = IF o.err THEN faults + 1 ELSE faults
             /\ cur' = [cur EXCEPT !.ret = IF o.err THEN "err" ELSE "none"]
             /\ wrPc' = [wrPc EXCEPT ![w] = IF o.err THEN "unlock" ELSE "write"]
             /\ lastRollover' = IF o.err THEN lastRollover ELSE fsNow
    /\ UNCHANGED <<rollCfg, currentIndex, rollMu, fsNow, wrEntry, appendCalls, accepted>>
    /\ UNCHANGED <<renameCount, renameFailures, cleanupRuns, removedFiles>>
    /\ UNCHANGED rollCloseDid
    /\ UNCHANGED notRollingVars

\* data := r.layout.Format(entry); _, err := r.file.Write(data); return err
RollWrite(w) ==
    /\ wrPc[w] = "write"
    /\ \E fail \in FaultChoices(1) :
          IF fail
          THEN /\ faults' = faults + 1
               /\ cur' = [cur EXCEPT !.ret = "err"]
               /\ UNCHANGED <<disk, accepted>>
          ELSE /\ disk' = WriteFile(disk, file, wrEntry[w], fsNow)
               /\ cur' = [cur EXCEPT !.wroteTo = file, !.wrotePos = Len(disk[file].data),
                                     !.ret = "nil"]
               /\ accepted' = accepted \cup {wrEntry[w].id}
               /\ UNCHANGED faults
    /\ wrPc' = [wrPc EXCEPT ![w] = "unlock"]
    /\ UNCHANGED <<rollCfg, file, currentIndex, rollMu, fsNow, wrEntry, appendCalls>>
    /\ UNCHANGED rollHistory
    /\ UNCHANGED rollCloseDid
    /\ UNCHANGED notRollingVars

\* The deferred r.mu.Unlock(); Append returns cur.ret.
RollUnlock(w) ==
    /\ wrPc[w] = "unlock"
    /\ rollMu' = NoWriter
    /\ wrPc' = [wrPc EXCEPT ![w] = "idle"]
    /\ wrEntry' = [wrEntry EXCEPT ![w] = NilEntry]
    /\ cur' = FreshCur
    /\ UNCHANGED <<fsNow, appendCalls, faults, accepted>>
    /\ UNCHANGED sinkVars
    /\ UNCHANGED rollHistory
    /\ UNCHANGED rollCloseDid
    /\ UNCHANGED notRollingVars

\* r.Close(): under the lock, close the handle if there is one and forget it
\* (file.Close() may fail, its error is returned); return nil if there is none.
\* Faulty variant: the handle is forgotten only when file.Close() succeeds.
CloseLeavesKeepOnError(handle, fail) == IF fail THEN handle ELSE NoHandle
CloseLeaves(handle, fail) == NoHandle

\* What the latest Close returned: the error of file.Close(), or nil.
RollCloseReturned ==
    CASE rollCloseDid = "none" -> "none"
      [] rollCloseDid = "failed" -> "err"
      [] OTHER -> "nil"

RollClose(w) ==
    /\ wrPc[w] = "idle"
    /\ RollMuFree
    /\ IF file # NoHandle
       THEN \E fail \in FaultChoices(1) :
               /\ file' = CloseLeaves(file, fail)
               /\ rollCloseDid' = IF fail THEN "failed" ELSE "closed"
               /\ faults' = IF fail THEN faults + 1 ELSE faults
       ELSE /\ rollCloseDid' = "nothing"
            /\ UNCHANGED <<file, faults>>
    /\ UNCHANGED <<rollCfg, currentIndex, disk, rollMu, fsNow, cur, appendCalls, accepted>>
    /\ UNCHANGED writerVars
    /\ UNCHANGED rollHistory
    /\ UNCHANGED notRollingVars

\* Time passes (a call is short against the unit of the clock: the clock is
\* not advanced while a call is inside the lock).
RollTick ==
    /\ fsNow < MaxFsTime
    /\ rollMu = NoWriter
    /\ fsNow' = fsNow + 1
    /\ UNCHANGED <<rollMu, cur, appendCalls, faults, accepted>>
    /\ UNCHANGED sinkVars
    /\ UNCHANGED writerVars
    /\ UNCHANGED rollHistory
    /\ UNCHANGED rollCloseDid
    /\ UNCHANGED notRollingVars

NextRolling ==
    \/ \E w \in Writers, size \in EntrySizes, lvl \in {INFO, ERROR} :
          RollAppendCall(w, size, lvl)
    \/ \E w \in Writers : RollLock(w)
    \/ \E w \in Writers : RollOpen(w)
    \/ \E w \in Writers : RollShouldRoll(w)
    \/ \E w \in Writers : Rollover(w)
    \/ \E w \in Writers : RollCleanup(w)
    \/ \E w \in Writers : RollReopen(w)
    \/ \E w \in Writers : RollWrite(w)
    \/ \E w \in Writers : RollUnlock(w)
    \/ \E w \in Writers : RollClose(w)
    \/ RollTick

(***************************************************************************)
(* cleanup() over the directories it can find                              *)
(***************************************************************************)

\* The file name of the sink whose cleanup() is called.
CleanBase == <<"app", ".", "log">>

\* The names in the directory that start with the base name.
CleanBackupNames == {CleanBase \o <<".", ToString(i)>> : i \in 1..MaxBackupFiles}

\* A file of one entry, and the mark of a name that is not in the directory.
BackupFile(mtime, size) ==
    [data |-> <<[id |-> 0, size |-> size, level |-> ERROR, marker |-> ""]>>, mtime |-> mtime]
NoFile == [data |-> <<>>, mtime |-> -1]

\* The files cleanup() must leave alone: the live file, and a file whose name
\* does not start with the base name.
OtherFiles == {CleanBase, <<"app", ".", "1", ".", "log">>}

\* The directory in which the names with a file under choice are there.
DirOf(choice) ==
    [n \in {m \in CleanBackupNames : choice[m] # NoFile} \cup OtherFiles |->
        IF n \in CleanBackupNames THEN choice[n] ELSE BackupFile(0, 2)]

\* maxBackups, maxAge, totalMaxSize of the sinks whose cleanup() is called.
CleanLimits == {0, 1, 2} \X {0, 1} \X {0, 2, 3}

\* A sink at some time, no call on it in progress, and a directory.
CleanupInit ==
    /\ \E limits \in CleanLimits :
          rollCfg = NewRollingFileAppender(CleanBase, <<>>, limits)
    /\ \E choice \in [CleanBackupNames ->
                        {NoFile} \cup {BackupFile(t, sz) : t \in 0..MaxModTime, sz \in EntrySizes}] :
          disk = DirOf(choice)
    /\ fsNow = MaxModTime
    /\ file = NoHandle
    /\ currentIndex = 0
    /\ rollMu = NoWriter
    /\ wrPc = [w \in Writers |-> "idle"]
    /\ wrEntry = [w \in Writers |-> NilEntry]
    /\ cur = FreshCur
    /\ appendCalls = 0
    /\ faults = 0
    /\ renameCount = 0
    /\ renameFailures = 0
    /\ cleanupRuns = 0
    /\ removedFiles = {}
    /\ accepted = {}
    /\ lastRollover = -1
    /\ rollCloseDid = "none"

\* r.cleanup()
CleanupCall ==
    /\ cleanupRuns < MaxCleanups
    /\ LET backups == BackupNames(disk, rollCfg.filename)
       IN \E order \in SortedByModTime(disk, backups) :
             LET gone == backups \ CleanupKeeps(disk, rollCfg, order, fsNow)
             IN /\ disk' = RemoveFiles(disk, gone)
                /\ removedFiles' = removedFiles \cup gone
    /\ cleanupRuns' = cleanupRuns + 1
    /\ UNCHANGED <<rollCfg, file, currentIndex, rollMu, fsNow, cur, appendCalls, faults,
                   renameCount, renameFailures, accepted, lastRollover, rollCloseDid>>
    /\ UNCHANGED writerVars
    /\ UNCHANGED notRollingVars

\* Time passes between two calls of cleanup().
CleanTick ==
    /\ fsNow < MaxModTime + 1
    /\ fsNow' = fsNow + 1
    /\ UNCHANGED <<rollMu, cur, appendCalls, faults, accepted, rollCloseDid>>
    /\ UNCHANGED sinkVars
    /\ UNCHANGED writerVars
    /\ UNCHANGED rollHistory
    /\ UNCHANGED notRollingVars

NextCleanup ==
    \/ CleanupCall
    \/ CleanTick

(***************************************************************************)
(* The maps of an Entry                                                    *)
(***************************************************************************)

\* The keys and values of the maps of the model.
MapKeys == {"user", "trace"}
MapValues == {1, 2}

\* The maps over these keys; make(map[string]interface{}).
Maps == UNION {[ks -> MapValues] : ks \in SUBSET MapKeys}
EmptyMap == [k \in {} |-> 1]

\* m[key] = value; delete(m, key)
MapPut(m, key, value) == [k \in DOMAIN m \cup {key} |-> IF k = key THEN value ELSE m[k]]
MapDelete(m, key) == [k \in DOMAIN m \ {key} |-> m[k]]

\* A map-typed field of an Entry holds a map of its own, or the very map that
\* somebody else holds too ("mdc": l.mdc.data, "fields": the caller's map).
OwnMap(m) == [shared |-> "none", own |-> m]
SharedMap(with) == [shared |-> with, own |-> EmptyMap]

\* What a reader of such a field finds in it now.
ReadMap(field) ==
    CASE field.shared = "none" -> field.own
      [] field.shared = "mdc" -> mdcData
      [] field.shared = "fields" -> userFields

\* MDC.Clone(): a new map with the pairs of m.data.
Clone(m) == OwnMap(m)

\* The Entry built by Logger.log (Fields: a new empty map) and by
\* FieldLogger.log (Fields: f.fields, the map given to WithFields).
NewEntry(via) ==
    [kind |-> "entry",
     Context |-> Clone(mdcData),
     Fields |-> IF via = "Field" THEN SharedMap("fields") ELSE OwnMap(EmptyMap)]

\* What the maps of an Entry hold now.
EntryMaps(entry) == [Context |-> ReadMap(entry.Context), Fields |-> ReadMap(entry.Fields)]
NoMaps == [Context |-> EmptyMap, Fields |-> EmptyMap]

\* NewLogger and a map for WithFields; no log call made.
EntryInit ==
    /\ mdcData = EmptyMap
    /\ userFields \in Maps
    /\ entryPc = "idle"
    /\ builtEntry = NilEntry
    /\ builtMaps = NoMaps
    /\ sinkSaw = NoMaps

entryCallVars == <<entryPc, builtEntry, builtMaps, sinkSaw>>

\* l.MDC().Put(key, value)
MDCPut(key, value) ==
    /\ mdcData' = MapPut(mdcData, key, value)
    /\ UNCHANGED userFields
    /\ UNCHANGED entryCallVars
    /\ UNCHANGED notEntryVars

\* l.MDC().Remove(key)
MDCRemove(key) ==
    /\ mdcData' = MapDelete(mdcData, key)
    /\ UNCHANGED userFields
    /\ UNCHANGED entryCallVars
    /\ UNCHANGED notEntryVars

\* l.MDC().Clear()
MDCClear ==
    /\ mdcData' = EmptyMap
    /\ UNCHANGED userFields
    /\ UNCHANGED entryCallVars
    /\ UNCHANGED notEntryVars

\* The caller writes to the map it gave to WithFields.
FieldsPut(key, value) ==
    /\ userFields' = MapPut(userFields, key, value)
    /\ UNCHANGED mdcData
    /\ UNCHANGED entryCallVars
    /\ UNCHANGED notEntryVars

\* The caller deletes from the map it gave to WithFields.
FieldsDelete(key) ==
    /\ userFields' = MapDelete(userFields, key)
    /\ UNCHANGED mdcData
    /\ UNCHANGED entryCallVars
    /\ UNCHANGED notEntryVars

\* A log call at an enabled level, on the logger or on l.WithFields(fields):
\* the Entry is built and handed to the sinks (an async sink queues it).
EntryLog(via) ==
    /\ entryPc = "idle"
    /\ builtEntry' = NewEntry(via)
    /\ builtMaps' = EntryMaps(NewEntry(via))
    /\ entryPc' = "handed"
    /\ UNCHANGED <<mdcData, userFields, sinkSaw>>
    /\ UNCHANGED notEntryVars

\* A sink (the worker of an async sink, later) processes the Entry: the layout
\* reads entry.Context and entry.Fields.
EntryProcess ==
    /\ entryPc = "handed"
    /\ sinkSaw' = EntryMaps(builtEntry)
    /\ entryPc' = "processed"
    /\ UNCHANGED <<mdcData, userFields, builtEntry, builtMaps>>
    /\ UNCHANGED notEntryVars

NextEntry ==
    \/ \E key \in MapKeys, value \in MapValues : MDCPut(key, value)
    \/ \E key \in MapKeys : MDCRemove(key)
    \/ MDCClear
    \/ \E key \in MapKeys, value \in MapValues : FieldsPut(key, value)
    \/ \E key \in MapKeys : FieldsDelete(key)
    \/ \E via \in {"Logger", "Field"} : EntryLog(via)
    \/ EntryProcess

(***************************************************************************)
(* ParseFilter                                                             *)
(***************************************************************************)

\* The values of a map[string]interface{}: a string, or a number of dynamic
\* type int or float64. Absent: the key is not in the map.
Str(s) == [typ |-> "string", str |-> s, num |-> 0]
Num(typ, n) == [typ |-> typ, str |-> "", num |-> n]
Absent == [typ |-> "absent", str |-> "", num |-> 0]

\* A configuration map from the value (or Absent) of each key; the nil map.
MakeConfig(type, marker, lvl, onMatch, onMismatch, rate, maxBurst) ==
    LET all == [k \in {"type", "marker", "level", "on_match", "on_mismatch", "rate",
                       "max_burst"} |->
                   CASE k = "type" -> type
                     [] k = "marker" -> marker
                     [] k = "level" -> lvl
                     [] k = "on_match" -> onMatch
                     [] k = "on_mismatch" -> onMismatch
                     [] k = "rate" -> rate
                     [] k = "max_burst" -> maxBurst]
    IN [isNil |-> FALSE, map |-> [k \in {j \in DOMAIN all : all[j] # Absent} |-> all[k]]]
NilConfig == [isNil |-> TRUE, map |-> [k \in {} |-> Absent]]

\* v, ok := config[key].(T): ok, and v (the zero value when not ok).
\* Faulty variant of the assertion to string: ok for a value of any type.
HasKey(config, key) == key \in DOMAIN config.map
HasStringAnyType(config, key) == key \in DOMAIN config.map
HasString(config, key) == key \in DOMAIN config.map /\ config.map[key].typ = "string"
HasNumber(config, key, typ) == key \in DOMAIN config.map /\ config.map[key].typ = typ
StringOf(config, key) == IF HasString(config, key) THEN config.map[key].str ELSE ""
NumberOf(config, key, typ) == IF HasNumber(config, key, typ) THEN config.map[key].num ELSE 0

\* ParseLevel: the names of levelValues, INFO for any other string.
ParseLevel(str) ==
    CASE str \in {"TRACE", "trace"} -> TRACE
      [] str \in {"DEBUG", "debug"} -> DEBUG
      [] str \in {"INFO", "info"} -> INFO
      [] str \in {"WARN", "warn"} -> WARN
      [] str \in {"ERROR", "error"} -> ERROR
      [] str \in {"FATAL", "fatal"} -> FATAL
      [] str = "OFF" -> OFF
      [] OTHER -> INFO

\* parseFilterResult
parseFilterResult(str) ==
    CASE ToUpper(str) = "ACCEPT" -> "ACCEPT"
      [] ToUpper(str) = "DENY" -> "DENY"
      [] ToUpper(str) = "NEUTRAL" -> "NEUTRAL"
      [] OTHER -> "NEUTRAL"

\* ParseFilter(config), called at time now; NilFilter is the nil Filter.
ParseFilter(config, now) ==
    IF config.isNil THEN NilFilter
    ELSE IF ~HasString(config, "type") THEN NilFilter
    ELSE
      LET typ == ToLower(StringOf(config, "type"))
          onMatch == IF HasString(config, "on_match")
                     THEN parseFilterResult(StringOf(config, "on_match")) ELSE "ACCEPT"
          onMismatch == IF HasString(config, "on_mismatch")
                        THEN parseFilterResult(StringOf(config, "on_mismatch")) ELSE "DENY"
          rate == IF NumberOf(config, "rate", "float64") = 0
                  THEN NumberOf(config, "rate", "int")
                  ELSE NumberOf(config, "rate", "float64")
          maxBurst == IF NumberOf(config, "max_burst", "int") = 0
                      THEN NumberOf(config, "max_burst", "float64")
                      ELSE NumberOf(config, "max_burst", "int")
      IN CASE typ = "marker" ->
                IF HasString(config, "marker")
                THEN [NewMarkerFilter(StringOf(config, "marker")) EXCEPT
                         !.onMatch = onMatch, !.onMismatch = onMismatch]
                ELSE NilFilter
           [] typ \in {"level", "threshold"} ->
                IF HasString(config, "level")
                THEN [NewThresholdFilter(ParseLevel(StringOf(config, "level"))) EXCEPT
                         !.onMatch = onMatch, !.onMismatch = onMismatch]
                ELSE NilFilter
           [] typ = "burst" ->
                ParseFilterBurst(ParseLevel(StringOf(config, "level")), rate, maxBurst,
                                 onMatch, onMismatch, now)
           [] OTHER -> NilFilter

\* BurstFilter.Decide of a filter at time now: the result.
IsBurst(filter) == "tokens" \in DOMAIN filter
BurstDecideAt(f, entry, now) ==
    IF BelowLevel(entry.level, f.level) THEN "NEUTRAL"
    ELSE IF TokenAvailable(Refilled(f.tokens, now - f.lastRefill, f.rate, f.maxBurst))
         THEN f.onMatch
         ELSE f.onMismatch

\* applyFilter of the sink that was given the parsed filter (FilterMap).
ParsedApplyFilter(filter, entry, now) ==
    IF IsBurst(filter) THEN BurstDecideAt(filter, entry, now) # "DENY"
    ELSE applyFilter(filter, entry)

\* The values the keys of the configuration maps of the model have.
Opt(values) == {Absent} \cup values
TypeValues ==
    {Str("marker"), Str("level"), Str("THRESHOLD"), Str("burst"), Str("regex"),
     Num("int", 7)}
MarkerValues == {Str("audit"), Num("int", 1)}
LevelValues == {Str("WARN"), Num("int", 3)}
ResultValues == {Str("neutral")}
RateValues == {Num("float64", 1)}
MaxBurstValues == {Num("int", 1)}

\* The entries the sink is given.
ParseEntries ==
    {[id |-> 1, level |-> lvl, marker |-> marker] : lvl \in {INFO, ERROR},
                                                     marker \in {"", "audit"}}

\* A configuration map, ParseFilter not yet called.
ParseInit ==
    /\ \/ parseConfig = NilConfig
       \/ \E type \in Opt(TypeValues), marker \in Opt(MarkerValues),
             lvl \in Opt(LevelValues), onMismatch \in Opt(ResultValues),
             rate \in Opt(RateValues), maxBurst \in Opt(MaxBurstValues) :
             parseConfig = MakeConfig(type, marker, lvl, Absent, onMismatch, rate, maxBurst)
    /\ parsePc = "config"
    /\ parsedFilter = NilFilter
    /\ parseEntry = NilEntry
    /\ parseAccepted = FALSE

\* r.FilterMap(config): r.WithFilter(ParseFilter(config))
ParseCall ==
    /\ parsePc = "config"
    /\ parsedFilter' = ParseFilter(parseConfig, 0)
    /\ parsePc' = "parsed"
    /\ UNCHANGED <<parseConfig, parseEntry, parseAccepted>>
    /\ UNCHANGED notParseVars

\* r.Append(entry): if !r.applyFilter(entry) { return nil }
ParseApply(entry) ==
    /\ parsePc = "parsed"
    /\ parseEntry' = entry
    /\ parseAccepted' = ParsedApplyFilter(parsedFilter, entry, 0)
    /\ parsePc' = "applied"
    /\ UNCHANGED <<parseConfig, parsedFilter>>
    /\ UNCHANGED notParseVars

NextParse ==
    \/ ParseCall
    \/ \E entry \in ParseEntries : ParseApply(entry)

(***************************************************************************)
(* A CompositeFilter with stateful children, and a reordered copy          *)
(***************************************************************************)

RECURSIVE DecideState(_, _, _)
RECURSIVE AllLoopState(_, _, _, _)
RECURSIVE AnyLoopState(_, _, _, _)

\* BurstFilter.Decide at time now: the result and the filter it leaves.
BurstFilterDecide(f, entry, now) ==
    IF BelowLevel(entry.level, f.level) THEN [result |-> "NEUTRAL", filter |-> f]
    ELSE LET tokens == Refilled(f.tokens, now - f.lastRefill, f.rate, f.maxBurst)
         IN IF TokenAvailable(tokens)
            THEN [result |-> f.onMatch,
                  filter |-> [f EXCEPT !.tokens = tokens - TokenUnit, !.lastRefill = now]]
            ELSE [result |-> f.onMismatch,
                  filter |-> [f EXCEPT !.tokens = tokens, !.lastRefill = now]]

\* case ALL: the loop from child i on; the children after the one that returns
\* DENY are not called. The result and the children the loop leaves.
AllLoopState(filters, entry, i, now) ==
    IF i > Len(filters) THEN [result |-> "ACCEPT", filters |-> filters]
    ELSE LET d == DecideState(filters[i], entry, now)
             after == [filters EXCEPT ![i] = d.filter]
         IN IF d.result = "DENY" THEN [result |-> "DENY", filters |-> after]
            ELSE AllLoopState(after, entry, i + 1, now)

\* case ANY: the children after the one that returns ACCEPT are not called.
AnyLoopState(filters, entry, i, now) ==
    IF i > Len(filters) THEN [result |-> "DENY", filters |-> filters]
    ELSE LET d == DecideState(filters[i], entry, now)
             after == [filters EXCEPT ![i] = d.filter]
         IN IF d.result = "ACCEPT" THEN [result |-> "ACCEPT", filters |-> after]
            ELSE AnyLoopState(after, entry, i + 1, now)

\* CompositeFilter.Decide: the result and the filter it leaves.
CompositeFilterDecideState(f, entry, now) ==
    IF Len(f.filters) = 0 THEN [result |-> "NEUTRAL", filter |-> f]
    ELSE LET loop == CASE f.mode = "ALL" -> AllLoopState(f.filters, entry, 1, now)
                       [] f.mode = "ANY" -> AnyLoopState(f.filters, entry, 1, now)
         IN [result |-> loop.result, filter |-> [f EXCEPT !.filters = loop.filters]]

\* Filter.Decide, by the filter's type: the result and the filter it leaves.
DecideState(f, entry, now) ==
    IF IsBurst(f) THEN BurstFilterDecide(f, entry, now)
    ELSE IF f.kind = "composite" THEN CompositeFilterDecideState(f, entry, now)
    ELSE [result |-> Decide(f, entry), filter |-> f]

\* The children of the composites: leaf filters without state, and burst filters
\* that limit the entries from INFO on to one token, refilled or not.
PureChildren ==
    {NewThresholdFilter(WARN), NewMarkerFilter("audit"), DenyAllFilter, AcceptAllFilter}
BurstChildren == {NewBurstFilter(INFO, rate, 1, 0) : rate \in {0, 1}}
OrderChildren == PureChildren \cup BurstChildren

\* The lists of two children, and of up to MaxChildren without state.
OrderLists ==
    {<<f, g>> : f \in OrderChildren, g \in OrderChildren}
        \cup UNION {[1..n -> PureChildren] : n \in 2..MaxChildren}

Permuted(filters, perm) == [i \in 1..Len(filters) |-> filters[perm[i]]]

\* NewCompositeFilter(mode, filters...) and NewCompositeFilter(mode, <the same
\* filters in another order>...), each with children of its own.
OrderInit ==
    /\ \E mode \in CompositeModes, filters \in OrderLists :
          \E perm \in Permutations(1..Len(filters)) :
             /\ ordOriginal = NewCompositeFilter(mode, filters)
             /\ ordPermuted = NewCompositeFilter(mode, Permuted(filters, perm))
    /\ ordEntry = NilEntry
    /\ ordResult = <<"none", "none">>
    /\ ordCalls = 0
    /\ ordNow = 0

\* Decide(entry) on both composites at the same time.
OrderDecide(entry) ==
    /\ ordCalls < MaxOrderCalls
    /\ LET a == DecideState(ordOriginal, entry, ordNow)
           b == DecideState(ordPermuted, entry, ordNow)
       IN /\ ordOriginal' = a.filter
          /\ ordPermuted' = b.filter
          /\ ordResult' = <<a.result, b.result>>
    /\ ordEntry' = entry
    /\ ordCalls' = ordCalls + 1
    /\ UNCHANGED ordNow
    /\ UNCHANGED notOrderVars

\* Time passes.
OrderTick ==
    /\ ordNow < MaxTime
    /\ ordNow' = ordNow + 1
    /\ UNCHANGED <<ordOriginal, ordPermuted, ordEntry, ordResult, ordCalls>>
    /\ UNCHANGED notOrderVars

NextOrder ==
    \/ \E entry \in CompositeEntries : OrderDecide(entry)
    \/ OrderTick

\* No composite to compare.
OrderParked ==
    /\ ordOriginal = NewCompositeFilter("ALL", <<>>)
    /\ ordPermuted = NewCompositeFilter("ALL", <<>>)
    /\ ordEntry = NilEntry
    /\ ordResult = <<"none", "none">>
    /\ ordCalls = 0
    /\ ordNow = 0

(***************************************************************************)
(* CronBasedPolicy                                                         *)
(***************************************************************************)

\* The clock of the cron model: ticks of half an hour, days of 24 hours.
TicksPerHour == 2
HoursPerDay == 24
TicksPerDay == TicksPerHour * HoursPerDay

\* now.Hour(), and time.Date(now.Year(), now.Month(), now.Day(), hour, 0, 0, 0, loc)
Hour(t) == (t \div TicksPerHour) % HoursPerDay
Day(t) == t \div TicksPerDay
TargetToday(t, hour) == Day(t) * TicksPerDay + hour * TicksPerHour

\* strings.Fields: the maximal runs of characters other than the space.
RECURSIVE FieldsFrom(_, _, _, _)
FieldsFrom(str, i, field, done) ==
    IF i > Len(str) THEN (IF field = <<>> THEN done ELSE Append(done, field))
    ELSE IF str[i] = " "
         THEN FieldsFrom(str, i + 1, <<>>, IF field = <<>> THEN done ELSE Append(done, field))
         ELSE FieldsFrom(str, i + 1, Append(field, str[i]), done)
Fields(str) == FieldsFrom(str, 1, <<>>, <<>>)

IsDigit(c) == c \in {"0", "1", "2", "3", "4", "5", "6", "7", "8", "9"}
DigitValue(c) ==
    CASE c = "0" -> 0 [] c = "1" -> 1 [] c = "2" -> 2 [] c = "3" -> 3 [] c = "4" -> 4
      [] c = "5" -> 5 [] c = "6" -> 6 [] c = "7" -> 7 [] c = "8" -> 8 [] c = "9" -> 9

\* var h int; fmt.Sscanf(field, "%d", &h): the digits the field starts with; h
\* stays 0 when it starts with none (the error of Sscanf is dropped).
RECURSIVE ScanDigits(_, _, _)
ScanDigits(field, i, h) ==
    IF i > Len(field) \/ ~IsDigit(field[i]) THEN h
    ELSE ScanDigits(field, i + 1, h * 10 + DigitValue(field[i]))
Sscanf(field) == ScanDigits(field, 1, 0)

\* parseCronHour(schedule)
parseCronHour(schedule) ==
    LET parts == Fields(schedule)
    IN IF Len(parts) >= 3 THEN Sscanf(parts[3]) ELSE 4

\* NewCronBasedPolicy(schedule), called at time now.
NewCronBasedPolicy(schedule, now) ==
    [kind |-> "cron", hour |-> parseCronHour(schedule), lastRoll |-> now]

\* CronBasedPolicy.ShouldRoll at time now.
CronShouldRoll(policy, now) ==
    Hour(now) = policy.hour /\ policy.lastRoll < TargetToday(now, policy.hour)

\* RollingFileAppender.shouldRoll: the policies are asked in order, up to the first
\* that returns true; a cron policy that returns true has set its lastRoll. full:
\* whether the live file has reached the maxSize of the size policy.
RECURSIVE CronSinkShouldRoll(_, _, _, _)
CronSinkShouldRoll(policies, i, now, full) ==
    IF i > Len(policies) THEN [roll |-> FALSE, policies |-> policies]
    ELSE IF policies[i].kind = "cron"
         THEN IF CronShouldRoll(policies[i], now)
              THEN [roll |-> TRUE,
                    policies |-> [policies EXCEPT ![i] = [@ EXCEPT !.lastRoll = now]]]
              ELSE CronSinkShouldRoll(policies, i + 1, now, full)
         ELSE IF full THEN [roll |-> TRUE, policies |-> policies]
              ELSE CronSinkShouldRoll(policies, i + 1, now, full)

\* The schedule strings of the model.
CronSchedules ==
    {<<"0", " ", "0", " ", "4", " ", "*", " ", "*", " ", "?">>,
     <<" ", "0", " ", " ", "0", " ", "2", "3">>,
     <<"0", " ", "0", " ", "2", "5", " ", "*", " ", "*", " ", "?">>,
     <<"0", " ", "0", " ", "*", " ", "*", " ", "*", " ", "?">>,
     <<"0", " ", "0", " ", "5", "x", " ", "*">>,
     <<"0", " ", "0">>,
     <<>>}

\* The times at which the sink of the model is built: midnight, and the second half
\* of hour 4 of day 0.
CronStarts == {0, 4 * TicksPerHour + 1}

\* The policy lists of the sink.
CronPolicyLists(schedule, now) ==
    {<<NewCronBasedPolicy(schedule, now)>>,
     <<NewCronBasedPolicy(schedule, now), NewSizeBasedPolicy(2)>>,
     <<NewSizeBasedPolicy(2), NewCronBasedPolicy(schedule, now)>>}

\* The cron policy of the sink.
CronOf(policies) == policies[CHOOSE i \in 1..Len(policies) : policies[i].kind = "cron"]

CronInit ==
    /\ \E schedule \in CronSchedules, now \in CronStarts :
          /\ cronSchedule = schedule
          /\ cronNow = now
          /\ cronPolicies \in CronPolicyLists(schedule, now)
    /\ cronRotatedAt = -1
    /\ cronTrues = <<>>

\* r.Append(entry) on the open file: shouldRoll, and rollover when it says so
\* (os.Rename may fail, and the file is then not rotated).
CronAppend(full, fail) ==
    /\ LET asked == CronSinkShouldRoll(cronPolicies, 1, cronNow, full)
       IN /\ cronPolicies' = asked.policies
          /\ cronTrues' = IF CronOf(asked.policies).lastRoll # CronOf(cronPolicies).lastRoll
                          THEN Append(cronTrues, cronNow)
                          ELSE cronTrues
          /\ cronRotatedAt' = IF asked.roll /\ ~fail THEN cronNow ELSE cronRotatedAt
    /\ UNCHANGED <<cronSchedule, cronNow>>
    /\ UNCHANGED notCronVars

\* Time passes.
CronTick ==
    /\ cronNow < MaxCronTicks
    /\ cronNow' = cronNow + 1
    /\ UNCHANGED <<cronSchedule, cronPolicies, cronRotatedAt, cronTrues>>
    /\ UNCHANGED notCronVars

NextCron ==
    \/ \E full \in BOOLEAN, fail \in BOOLEAN : CronAppend(full, fail)
    \/ CronTick

\* No sink with a cron policy.
CronParked ==
    /\ cronSchedule = <<>>
    /\ cronPolicies = <<>>
    /\ cronNow = 0
    /\ cronRotatedAt = -1
    /\ cronTrues = <<>>

(***************************************************************************)
(* Specifications                                                          *)
(***************************************************************************)

\* An AsyncAppender on which nothing is called.
AsyncParked == NewAsyncAppender(0) /\ AsyncFresh

\* A BurstFilter on which nothing is called.
BurstParked == burst = NewBurstFilter(WARN, 0, 0, 0) /\ BurstFresh

\* A CompositeFilter on which nothing is called.
CompositeParked ==
    /\ composite = NewCompositeFilter("ALL", <<>>)
    /\ compEntry = NilEntry
    /\ compResult = "none"

\* A logger whose MDC is empty and on which no log call is made.
EntryParked == userFields = EmptyMap /\ EntryInit

\* No configuration map, ParseFilter not called.
ParseParked ==
    /\ parseConfig = NilConfig
    /\ parsePc = "config"
    /\ parsedFilter = NilFilter
    /\ parseEntry = NilEntry
    /\ parseAccepted = FALSE

\* A RollingFileAppender on which nothing is called.
RollingParked ==
    /\ rollCfg = NewRollingFileAppender(<<"app", ".", "log">>, <<>>, <<DefaultMaxBackups, 0, 0>>)
    /\ disk = [n \in {} |-> OldFile]
    /\ RollingFresh

InitAsync == AsyncInit /\ LoggerInit /\ BurstParked /\ CompositeParked /\ RollingParked
    /\ EntryParked /\ ParseParked /\ OrderParked /\ CronParked
SpecAsync == InitAsync /\ [][NextAsync]_vars

\* Fair scheduling: a goroutine that can take a step takes it (a sender blocked on
\* the full channel is served when room is made, senders being queued in order), and
\* the delegate's Append and Close return. Nothing obliges a caller to call Append
\* or Close.
AsyncFairness ==
    /\ \A p \in Producers : SF_vars(ChanSend(p))
    /\ WF_vars(WorkerRecv)
    /\ WF_vars(WorkerDelegateAppend)
    /\ WF_vars(WorkerAppendReturn)
    /\ WF_vars(WorkerExit)
    /\ \A c \in Closers :
          /\ WF_vars(CloseChan(c))
          /\ WF_vars(WgWait(c))
          /\ WF_vars(DelegateCloseCall(c))
          /\ WF_vars(DelegateCloseReturn(c))
          /\ WF_vars(OnceWaitReturn(c))
SpecAsyncFair == InitAsync /\ [][NextAsync]_vars /\ AsyncFairness

InitLogger == LoggerInit /\ AsyncParked /\ BurstParked /\ CompositeParked /\ RollingParked
    /\ EntryParked /\ ParseParked /\ OrderParked /\ CronParked
SpecLogger == InitLogger /\ [][NextLogger]_vars

InitBurst == BurstInit /\ AsyncParked /\ LoggerInit /\ CompositeParked /\ RollingParked
    /\ EntryParked /\ ParseParked /\ OrderParked /\ CronParked
SpecBurst == InitBurst /\ [][NextBurst]_vars

InitComposite ==
    CompositeInit /\ AsyncParked /\ LoggerInit /\ BurstParked /\ RollingParked /\ EntryParked
    /\ ParseParked /\ OrderParked /\ CronParked
SpecComposite == InitComposite /\ [][NextComposite]_vars

InitRolling == RollingInit /\ AsyncParked /\ LoggerInit /\ BurstParked /\ CompositeParked
    /\ EntryParked /\ ParseParked /\ OrderParked /\ CronParked
SpecRolling == InitRolling /\ [][NextRolling]_vars

InitPolicies == PoliciesInit /\ AsyncParked /\ LoggerInit /\ BurstParked /\ CompositeParked
    /\ EntryParked /\ ParseParked /\ OrderParked /\ CronParked
SpecPolicies == InitPolicies /\ [][NextRolling]_vars

InitEntry ==
    EntryInit /\ AsyncParked /\ LoggerInit /\ BurstParked /\ CompositeParked /\ RollingParked
    /\ ParseParked /\ OrderParked /\ CronParked
SpecEntry == InitEntry /\ [][NextEntry]_vars

InitParse ==
    ParseInit /\ AsyncParked /\ LoggerInit /\ BurstParked /\ CompositeParked /\ RollingParked
    /\ EntryParked /\ OrderParked /\ CronParked
SpecParse == InitParse /\ [][NextParse]_vars

InitOrder ==
    OrderInit /\ AsyncParked /\ LoggerInit /\ BurstParked /\ CompositeParked /\ RollingParked
    /\ EntryParked /\ ParseParked /\ CronParked
SpecOrder == InitOrder /\ [][NextOrder]_vars

InitCron ==
    CronInit /\ AsyncParked /\ LoggerInit /\ BurstParked /\ CompositeParked /\ RollingParked
    /\ EntryParked /\ ParseParked /\ OrderParked
SpecCron == InitCron /\ [][NextCron]_vars

InitCleanup == CleanupInit /\ AsyncParked /\ LoggerInit /\ BurstParked /\ CompositeParked
    /\ EntryParked /\ ParseParked /\ OrderParked /\ CronParked
SpecCleanup == InitCleanup /\ [][NextCleanup]_vars

(***************************************************************************)
(* Properties of the AsyncAppender (under SpecAsync)                       *)
(***************************************************************************)

\* The entries for which Append has returned: those handed out and no longer
\* held by a producer inside Append (a panicked Append never returns).
Accepted == (1..(nextId - 1)) \ {prodEntry[p] : p \in Producers}

Count(q, e) == Cardinality({i \in 1..Len(q) : q[i] = e})

\* The worker has received e and has not yet invoked delegate.Append on it.
HeldByWorker(e) == workerPc = "deliver" /\ workerEntry = e

CloseReturned == \E c \in Closers : closePc[c] = "returned"

IsPrefix(a, b) == Len(a) <= Len(b) /\ \A i \in 1..Len(a) : a[i] = b[i]

\* C1: every entry whose Append has returned is handed to delegate.Append exactly
\* once: at any time it is either still pending (in the channel or held by the
\* worker) and not yet delivered, or delivered once and pending nowhere; and once
\* a Close call has returned, every such entry has been delivered.
C1_DeliveredExactlyOnce ==
    /\ \A e \in Accepted :
          Count(delivered, e) + Count(msgChan, e) + (IF HeldByWorker(e) THEN 1 ELSE 0) = 1
    /\ \A e \in Range(delivered) : Count(delivered, e) = 1
    /\ CloseReturned => \A e \in Accepted : Count(delivered, e) = 1

\* A Close call has returned after entries of both producers were accepted, some
\* of them still queued when the channel was closed.
C1_Witness ==
    /\ CloseReturned
    /\ Cardinality(Accepted) >= 2
    /\ closeBacklog >= 1
    /\ Len(delivered) = Cardinality(Accepted)

\* C2: the delegate receives the entries in the order in which they were put on
\* the channel: the sequence of delegate.Append invocations is a prefix of the
\* sequence of enqueues.
C2_DeliveryInEnqueueOrder == IsPrefix(delivered, enqOrder)

\* Two producers enqueued in the opposite order of their calls and both entries
\* reached the delegate.
C2_Witness ==
    /\ Len(delivered) >= 2
    /\ delivered[1] > delivered[2]

\* The entries the worker has taken off the channel.
Dequeued == Len(delivered) + (IF workerPc = "deliver" THEN 1 ELSE 0)

\* C3: the channel never holds more than its capacity, and the number of Appends
\* that have completed exceeds the number of entries the worker has dequeued by
\* at most the capacity: the (capacity+k)-th Append does not complete before the
\* worker's k-th dequeue.
C3_Backpressure ==
    /\ Len(msgChan) <= capacity
    /\ Len(enqOrder) - Dequeued <= capacity

\* Capacity 2, two entries queued, nothing dequeued or handed to the delegate,
\* and a third Append waiting to send.
C3_Witness ==
    /\ capacity = 2
    /\ Len(msgChan) = 2
    /\ ~chanClosed
    /\ workerPc = "recv"
    /\ delivered = <<>>
    /\ \E p \in Producers : prodPc[p] = "sending"

\* C4: however many Close calls are made, the channel is closed once, the
\* delegate is closed once, no Close call panics, one call at most runs the
\* shutdown, and every other call returns nil.
C4_CloseOnce ==
    /\ chanCloseCount <= 1
    /\ delegCloseCalls <= 1
    /\ ~closePanic
    /\ \A c \in Closers : closePc[c] # "panicked"
    /\ Cardinality({c \in Closers : closeRan[c]}) <= 1
    /\ \A c \in Closers : (closePc[c] = "returned" /\ ~closeRan[c]) => closeRet[c] = "nil"

\* Every closer has called Close and returned; the delegate's Close returned an
\* error to the call that ran the shutdown.
C4_Witness ==
    /\ \A c \in Closers : closePc[c] = "returned"
    /\ \E c \in Closers : closeRet[c] = "err"
    /\ delegCloseCalls = 1

\* C5: when delegate.Close is invoked the channel is drained, every enqueued
\* entry has been handed to delegate.Append, the worker has terminated (so no
\* delegate.Append is in progress), and no delegate.Append is invoked later.
C5_CloseAfterDrain ==
    /\ delegClosing =>
          /\ msgChan = <<>>
          /\ workerPc = "done"
          /\ delivered = enqOrder
    /\ ~lateAppend

\* delegate.Close is running after a Close that found two entries still queued.
C5_Witness ==
    /\ \E c \in Closers : closePc[c] = "inDelegClose"
    /\ closeBacklog >= 2

\* C6: no Append panics: no producer sends on the closed channel.
C6_AppendNeverPanics == \A p \in Producers : prodPc[p] # "panicked"

\* C7: an error of delegate.Append neither stops the worker nor makes it retry:
\* the failed entry was handed to the delegate exactly once, no entry is handed
\* over twice, the deliveries follow the enqueue order, and the worker terminates
\* only when the channel is closed and drained, with everything delivered.
C7_ErrorDoesNotStopWorker ==
    lastErr # NoEntry =>
        /\ Count(delivered, lastErr) = 1
        /\ \A e \in Range(delivered) : Count(delivered, e) = 1
        /\ IsPrefix(delivered, enqOrder)
        /\ workerPc = "done" => (chanClosed /\ msgChan = <<>> /\ delivered = enqOrder)

\* delegate.Append failed for the first entry and a later entry was handed to the
\* delegate after it.
C7_Witness ==
    /\ Len(delivered) >= 2
    /\ lastErr = delivered[1]

\* C39: when a Close call has returned, also one that did not perform the shutdown
\* itself, the shutdown is complete: the queue is closed and empty, the worker has
\* terminated and the delegate's Close has been invoked and has returned.
C39_CloseReturnsAfterShutdown ==
    \A c \in Closers :
        closePc[c] = "returned" =>
            /\ chanClosed /\ msgChan = <<>>
            /\ workerPc = "done"
            /\ delegCloseCalls = 1
            /\ \A d \in Closers : closePc[d] # "inDelegClose"
            /\ onceState = "done"

\* A Close call that found the shutdown in progress has returned; the queue held
\* entries when it was closed.
C39_Witness ==
    \E c \in Closers :
        /\ closePc[c] = "returned"
        /\ ~closeRan[c]
        /\ closeBacklog > 0
        /\ Len(delivered) >= closeBacklog

\* C40: under fair scheduling, with a delegate whose Append and Close return, every
\* Append blocked on the full queue eventually returns, and every Close call
\* eventually returns.
C40_AppendAndCloseReturn ==
    /\ \A p \in Producers :
          (prodPc[p] = "sending" /\ ChanFull(msgChan, capacity) /\ ~chanClosed)
              ~> (prodPc[p] = "idle")
    /\ \A c \in Closers : (closePc[c] # "idle") ~> (closePc[c] = "returned")

(***************************************************************************)
(* Properties of the Logger and of a sink's filter (under SpecLogger)      *)
(***************************************************************************)

\* The sinks on which the call has invoked Append, in order.
Invoked == [i \in 1..Len(callResults) |-> callResults[i].sink]

\* C8: a log call whose level is below the level the gate read builds no Entry
\* and invokes Append on no sink.
C8_BelowLevelNoAppend ==
    callLevel < callGate => (callEntry = NilEntry /\ callResults = <<>>)

\* A call below the level has returned while sinks were registered.
C8_Witness ==
    /\ callPc = "returned"
    /\ callLevel < callGate
    /\ appenders # <<>>

C10_FanOut ==
    /\ IsPrefix(Invoked, callSnapshot)
    /\ IsPrefix(callSnapshot, appenders)
    /\ (callPc = "returned" /\ callLevel >= callGate) =>
          /\ Invoked = callSnapshot
          /\ IsPrefix(callRegistered, Invoked)

\* A call has returned after the first of two sinks returned an error and the
\* second was invoked all the same.
C10_Witness ==
    /\ callPc = "returned"
    /\ Len(callResults) >= 2
    /\ callResults[1].err
    /\ Invoked = appenders

(***************************************************************************)
(* Properties of the BurstFilter (under SpecBurst)                         *)
(***************************************************************************)

\* The calls that obtained onMatch (each took one token).
Matches == Cardinality({i \in 1..Len(burstLog) : burstLog[i] = burst.onMatch})

\* C11: starting from the full bucket of the constructor, as long as no call has
\* measured an elapsed time, the decisions on entries at or above the level are
\* onMatch for the first maxBurst of them and onMismatch for every later one.
C11_BurstThenDeny ==
    ~elapsedSeen =>
        \A i \in 1..Len(burstLog) :
            burstLog[i] = IF i <= burst.maxBurst THEN burst.onMatch ELSE burst.onMismatch

\* With maxBurst = 2 and the clock standing still, two calls obtained onMatch and
\* a third one onMismatch.
C11_Witness ==
    /\ ~elapsedSeen
    /\ burst.maxBurst = 2
    /\ Len(burstLog) = 3
    /\ burstLog[2] = burst.onMatch
    /\ burstLog[3] = burst.onMismatch

\* C12: a Decide call on an entry below the level returns NEUTRAL in the step
\* that makes the call, which changes neither the tokens nor the last-refill
\* time (nor anything else of the filter), whatever the tokens are.
C12_BelowLevelNeutral ==
    [][\A c \in Deciders :
          (decidePc'[c] # decidePc[c] /\ decideLevel'[c] < burst.level) =>
              /\ decidePc'[c] = "returned"
              /\ decideResult'[c] = "NEUTRAL"
              /\ burst' = burst
              /\ burstMu' = burstMu]_vars

\* A call below the level has returned NEUTRAL on an empty bucket while another
\* call holds the lock.
C12_Witness ==
    \E c \in Deciders :
        /\ decidePc[c] = "returned"
        /\ decideLevel[c] < burst.level
        /\ decideResult[c] = "NEUTRAL"
        /\ burst.maxBurst > 0
        /\ burst.tokens < TokenUnit
        /\ burstMu \notin {NoDecider, c}

\* C13: whenever no Decide call is inside the lock, 0 <= tokens <= maxBurst.
C13_TokensInRange ==
    burstMu = NoDecider =>
        (0 <= burst.tokens /\ burst.tokens <= burst.maxBurst * TokenUnit)

Stepping(pc) == {c \in Deciders : decidePc[c] = pc /\ decidePc'[c] # pc}
Min(a, b) == IF a <= b THEN a ELSE b

\* C31: a Decide call at or above the level, at time t, on a filter with last-refill
\* time t0 and k tokens, computes k' = min(maxBurst, k + rate * (t - t0)) and sets the
\* last-refill time to t, whatever the outcome; if k' >= 1 it returns onMatch and
\* leaves k' - 1 tokens, otherwise it returns onMismatch and leaves k' tokens.
C31_DecideStep ==
    [][/\ \A c \in Stepping("refill") :
             /\ burst'.tokens = Min(burst.maxBurst * TokenUnit,
                                     burst.tokens + burst.rate * (clock - burst.lastRefill))
             /\ burst'.lastRefill = clock
             /\ decidePc'[c] = IF burst'.tokens >= TokenUnit THEN "take" ELSE "refuse"
       /\ \A c \in Stepping("take") :
             /\ decidePc'[c] = "returned"
             /\ decideResult'[c] = burst.onMatch
             /\ burst' = [burst EXCEPT !.tokens = burst.tokens - TokenUnit]
       /\ \A c \in Stepping("refuse") :
             /\ decidePc'[c] = "returned"
             /\ decideResult'[c] = burst.onMismatch
             /\ burst' = burst]_vars

\* After the bucket of one token was emptied and one tick passed at a rate of half a
\* token per tick, a call was refused: it left the half token and the time of the call.
C31_Witness ==
    \E c \in Deciders :
        /\ decidePc[c] = "returned"
        /\ decideLevel[c] >= burst.level
        /\ decideResult[c] = burst.onMismatch
        /\ burst.maxBurst = 1 /\ burst.rate = 1
        /\ burst.lastRefill = 1
        /\ burst.tokens = 1
        /\ Matches = 1

\* The decisions that returned onMatch at a time from..to.
MatchesIn(from, to) ==
    Cardinality({i \in 1..Len(burstLog) :
                    burstLog[i] = burst.onMatch /\ from <= burstTimes[i] /\ burstTimes[i] <= to})

ChildResults ==
    [i \in 1..Len(composite.filters) |-> Decide(composite.filters[i], compEntry)]

SomeChild(r) == \E i \in 1..Len(composite.filters) : ChildResults[i] = r

\* C15 as claimed: in mode ALL, for every list of children, the empty list
\* included, Decide returns DENY if some child returns DENY and ACCEPT if every
\* child returns ACCEPT or NEUTRAL.
C15_AllModeClaimed ==
    (compResult # "none" /\ composite.mode = "ALL") =>
        compResult = IF SomeChild("DENY") THEN "DENY" ELSE "ACCEPT"

\* C15 amended: as claimed for every non-empty list of children; for the empty
\* list Decide returns NEUTRAL.
C15_AllMode ==
    (compResult # "none" /\ composite.mode = "ALL") =>
        compResult = IF composite.filters = <<>> THEN "NEUTRAL"
                     ELSE IF SomeChild("DENY") THEN "DENY" ELSE "ACCEPT"

\* Mode ALL with three children: a first child that returns NEUTRAL, then one
\* that returns ACCEPT, then one that returns DENY; Decide returned DENY.
C15_Witness ==
    /\ composite.mode = "ALL"
    /\ compResult = "DENY"
    /\ Len(composite.filters) = 3
    /\ ChildResults[1] = "NEUTRAL"
    /\ ChildResults[2] = "ACCEPT"
    /\ ChildResults[3] = "DENY"

\* C16 as claimed: in mode ANY, for every list of children, the empty list
\* included, Decide returns ACCEPT if some child returns ACCEPT and DENY
\* otherwise.
C16_AnyModeClaimed ==
    (compResult # "none" /\ composite.mode = "ANY") =>
        compResult = IF SomeChild("ACCEPT") THEN "ACCEPT" ELSE "DENY"

\* C16 amended: as claimed for every non-empty list of children; for the empty
\* list Decide returns NEUTRAL.
C16_AnyMode ==
    (compResult # "none" /\ composite.mode = "ANY") =>
        compResult = IF composite.filters = <<>> THEN "NEUTRAL"
                     ELSE IF SomeChild("ACCEPT") THEN "ACCEPT" ELSE "DENY"

\* Mode ANY with children that return NEUTRAL and DENY only: Decide returned
\* DENY.
C16_Witness ==
    /\ composite.mode = "ANY"
    /\ compResult = "DENY"
    /\ Len(composite.filters) >= 2
    /\ SomeChild("NEUTRAL")
    /\ SomeChild("DENY")

(***************************************************************************)
(* Properties of the RollingFileAppender (under SpecRolling)               *)
(***************************************************************************)

\* The sink's only policy is a SizeBasedPolicy.
SizeOnly == Len(rollCfg.policies) = 1 /\ rollCfg.policies[1].kind = "size"

\* The Append call of w is over but for the unlock: cur tells what it did.
AppendDone(w) == wrPc[w] = "unlock"

\* The call of w has renamed the live file to the indexed backup name, opened a
\* new file at the original name, found it empty and written its entry to it.
Rotated(w) ==
    /\ cur.renamedTo = GetNextFileName(rollCfg.policies[1], rollCfg.filename, currentIndex)
    /\ cur.renamedTo # rollCfg.filename
    /\ file = rollCfg.filename
    /\ cur.wroteTo = rollCfg.filename
    /\ cur.wrotePos = 0
    /\ disk[rollCfg.filename].data = <<wrEntry[w]>>

\* The call has not begun a rollover.
NotRotated == cur.renamedTo = NoHandle /\ ~cur.renameFailed /\ ~cur.cleaned

\* Right after the rename the live name is gone and the backup holds what the
\* live file held.
RenameMoved(w) ==
    wrPc[w] = "cleanup" =>
        /\ rollCfg.filename \notin DOMAIN disk
        /\ cur.renamedTo \in DOMAIN disk
        /\ FileSize(disk[cur.renamedTo]) = cur.found

\* C17 as claimed: with SizeBasedPolicy(M) as the only policy, an Append that
\* finds the live file's size >= M renames the live file to the indexed backup
\* name, opens a new empty file at the original name and writes its entry to
\* it; an Append that finds the size < M does not rotate.
C17_SizeRolloverClaimed ==
    \A w \in Writers :
        /\ SizeOnly => RenameMoved(w)
        /\ (AppendDone(w) /\ SizeOnly /\ cur.found # -1) =>
              IF cur.found >= rollCfg.policies[1].maxSize THEN Rotated(w) ELSE NotRotated

\* C17 amended: as claimed for an Append that returns no error (when the
\* rename, the opening of the new file or the write fails, Append returns that
\* error instead).
C17_SizeRollover ==
    \A w \in Writers :
        /\ SizeOnly => RenameMoved(w)
        /\ (AppendDone(w) /\ SizeOnly /\ cur.found # -1) =>
              IF cur.found >= rollCfg.policies[1].maxSize
              THEN cur.ret = "nil" => Rotated(w)
              ELSE NotRotated

\* The second Append found the live file, which held the first entry, at the
\* size of the policy, moved it to the backup name and wrote the second entry to
\* the new file.
C17_Witness ==
    \E w \in Writers :
        /\ AppendDone(w)
        /\ SizeOnly
        /\ cur.found >= rollCfg.policies[1].maxSize
        /\ cur.ret = "nil"
        /\ Rotated(w)
        /\ wrEntry[w].id = 2
        /\ cur.renamedTo \in DOMAIN disk
        /\ \E i \in 1..Len(disk[cur.renamedTo].data) : disk[cur.renamedTo].data[i].id = 1

\* C18: a sink without a triggering policy never begins a rollover: no rename
\* (successful or failed), no cleanup, no file removed, no file but the live
\* one, and every entry that passed the filter and whose Append returned nil is
\* in the live file, once.
C18_NoPolicyNoRollover ==
    rollCfg.policies = <<>> =>
        /\ currentIndex = 0
        /\ renameCount = 0
        /\ renameFailures = 0
        /\ cleanupRuns = 0
        /\ removedFiles = {}
        /\ DOMAIN disk \subseteq {rollCfg.filename}
        /\ \A id \in accepted :
              /\ rollCfg.filename \in DOMAIN disk
              /\ Cardinality({i \in 1..Len(disk[rollCfg.filename].data) :
                                 disk[rollCfg.filename].data[i].id = id}) = 1

\* Without a policy, two entries were written after the entry of an earlier
\* run: the live file holds six bytes and is the only file.
C18_Witness ==
    /\ rollCfg.policies = <<>>
    /\ accepted = {1, 2}
    /\ rollCfg.filename \in DOMAIN disk
    /\ FileSize(disk[rollCfg.filename]) >= 6

\* Every file that was there before the failed rename is there as it was.
NothingLost ==
    \A n \in DOMAIN cur.diskAtRename : n \in DOMAIN disk /\ disk[n] = cur.diskAtRename[n]

\* C19 as claimed: when the rename fails, the Append returns the error, the sink
\* has a handle on the original file under its original name, cleanup has not
\* run and no file was deleted or truncated.
C19_RenameFailureClaimed ==
    \A w \in Writers :
        (AppendDone(w) /\ cur.renameFailed) =>
            /\ cur.ret = "err"
            /\ file = rollCfg.filename
            /\ rollCfg.filename \in DOMAIN disk
            /\ ~cur.cleaned
            /\ NothingLost

\* C19 amended: as claimed, except that the sink has the handle on the original
\* file only if reopening it succeeds; if that fails too, the sink is left
\* without a handle (the next Append opens the file again).
C19_RenameFailure ==
    \A w \in Writers :
        (AppendDone(w) /\ cur.renameFailed) =>
            /\ cur.ret = "err"
            /\ file \in {rollCfg.filename, NoHandle}
            /\ file = rollCfg.filename => rollCfg.filename \in DOMAIN disk
            /\ ~cur.cleaned
            /\ NothingLost

\* The rename failed for an Append that found the live file with an entry this
\* sink had written; the file was reopened and holds that entry.
C19_Witness ==
    \E w \in Writers :
        /\ AppendDone(w)
        /\ cur.renameFailed
        /\ file = rollCfg.filename
        /\ accepted = {1}
        /\ disk[rollCfg.filename].data # <<>>
        /\ disk[rollCfg.filename].data[Len(disk[rollCfg.filename].data)].id = 1

\* C20: an Append that follows an Append whose rename failed writes its entry to
\* the original file, also when its own rename fails again (failures of open and
\* write apart).
C20_LoggingContinues ==
    \A w \in Writers :
        (/\ AppendDone(w)
         /\ renameFailures > (IF cur.renameFailed THEN 1 ELSE 0)
         /\ cur.renameFailed) =>
            /\ cur.wroteTo = rollCfg.filename
            /\ wrEntry[w].id \in accepted

\* The positions of an Append call between r.mu.Lock() and r.mu.Unlock().
InsideLock == {"open", "shouldRoll", "rollover", "cleanup", "reopen", "write", "unlock"}

\* C21: the steps of one Append are atomic with respect to every other call on
\* the sink: at most one call is between Lock and Unlock, and it holds r.mu (no
\* two rollovers overlap, nobody else is there between the rename and the
\* reopen); from its open() to its write the handle stays open on the live file
\* (no Close and no rename by another call in between), and between its rename
\* and its reopen the sink has no handle; a write goes to the live file.
C21_AppendAtomic ==
    /\ \A w1, w2 \in Writers :
          (wrPc[w1] \in InsideLock /\ wrPc[w2] \in InsideLock) => w1 = w2
    /\ \A w \in Writers :
          /\ wrPc[w] \in InsideLock => rollMu = w
          /\ wrPc[w] \in {"shouldRoll", "rollover", "write"} =>
                (file = rollCfg.filename /\ file \in DOMAIN disk)
          /\ wrPc[w] \in {"cleanup", "reopen"} =>
                (file = NoHandle /\ rollCfg.filename \notin DOMAIN disk)
    /\ cur.wroteTo \in {NoHandle, rollCfg.filename}

\* One caller is between the rename and the reopen of its rollover (the live
\* file is gone, the sink has no handle) while the other has made its call and
\* waits for the lock.
C21_Witness ==
    \E w1, w2 \in Writers :
        /\ wrPc[w1] = "reopen"
        /\ wrPc[w2] = "lock"
        /\ rollMu = w1
        /\ cur.renamedTo \in DOMAIN disk
        /\ rollCfg.filename \notin DOMAIN disk

\* A step of Close: every step of an Append moves its caller on, and the
\* clock's step changes the time.
CloseStep == UNCHANGED <<wrPc, fsNow>>

\* C30: a Close call leaves the sink without a handle; it does not rename,
\* rotate or delete (the directory, the rotation index and the counts of
\* renames, cleanups and removals are as before); a Close that finds no handle
\* (a second Close) returns nil and changes nothing at all.
C30_CloseIdempotent ==
    [][CloseStep =>
          /\ file' = NoHandle
          /\ disk' = disk
          /\ currentIndex' = currentIndex
          /\ UNCHANGED rollHistory
          /\ file = NoHandle =>
                /\ RollCloseReturned' = "nil"
                /\ UNCHANGED <<rollCfg, rollMu, fsNow, cur, appendCalls, faults, accepted>>
                /\ UNCHANGED writerVars]_vars

\* A Close closed the handle that an Append had opened and written to, and a
\* second Close found no handle.
C30_Witness ==
    /\ rollCloseDid = "nothing"
    /\ file = NoHandle
    /\ faults = 0
    /\ accepted # {}
    /\ rollCfg.filename \in DOMAIN disk

\* The backup files on disk that this sink's rollovers created: the names
\* rollover() has chosen so far.
CreatedBackups ==
    {n \in DOMAIN disk :
        \E i \in 1..currentIndex : n = NewName(rollCfg.policies, rollCfg.filename, i)}

\* C22: with maxBackups = N > 0, once the cleanup of a rollover has run, at
\* most N of the backup files the sink's rollovers created are on disk.
C22_BackupsBounded ==
    (rollCfg.maxBackups > 0 /\ \A w \in Writers : wrPc[w] # "cleanup") =>
        Cardinality(CreatedBackups) <= rollCfg.maxBackups

(***************************************************************************)
(* Properties of cleanup() (under SpecCleanup)                             *)
(***************************************************************************)

\* A step of cleanup(); the files it finds as backups; those it removes.
CleanupStep == cleanupRuns' # cleanupRuns
Backups == BackupNames(disk, rollCfg.filename)
Gone == Backups \ DOMAIN disk'

DistinctModTimes(names) ==
    \A a, b \in names : a # b => disk[a].mtime # disk[b].mtime

\* Every file cleanup() does not remove is there afterwards, as it was.
OthersUntouched ==
    /\ DOMAIN disk' = DOMAIN disk \ Gone
    /\ \A n \in DOMAIN disk' : disk'[n] = disk[n]

C24_AgeLimit ==
    [][(CleanupStep /\ rollCfg.maxAge > 0) =>
          /\ \A n \in Backups : disk[n].mtime < fsNow - rollCfg.maxAge => n \in Gone
          /\ (rollCfg.maxBackups <= 0 /\ rollCfg.totalMaxSize <= 0) =>
                \A n \in Gone : disk[n].mtime < fsNow - rollCfg.maxAge]_vars

\* The summed size of a set of files of the directory.
RECURSIVE SummedSize(_)
SummedSize(names) ==
    IF names = {} THEN 0
    ELSE LET n == CHOOSE m \in names : TRUE
         IN FileSize(disk[n]) + SummedSize(names \ {n})

Trigger(i) ==
    /\ i \in 1..Len(rollCfg.policies)
    /\ PolicyShouldRoll(rollCfg.policies[i], cur.found)
    /\ \A j \in 1..(i - 1) : ~PolicyShouldRoll(rollCfg.policies[j], cur.found)

\* C26: the backup name of every rollover of a sink with policies is the
\* first policy's GetNextFileName of the file name and the rotation index (the
\* index for a size policy, the time stamp for a time policy), and the renamed
\* file is there under that name.
C26_FirstPolicyNames ==
    \A w \in Writers :
        (wrPc[w] = "cleanup" /\ Len(rollCfg.policies) > 0) =>
            /\ cur.renamedTo \in DOMAIN disk
            /\ cur.renamedTo =
                  GetNextFileName(rollCfg.policies[1], rollCfg.filename, currentIndex)
            /\ rollCfg.policies[1].kind = "size" =>
                  cur.renamedTo = <<"app", ".", ToString(currentIndex), ".", "log">>
            /\ rollCfg.policies[1].kind = "time" =>
                  cur.renamedTo = <<"app", ".", FormatHour(fsNow), ".", "log">>

\* The size policy is first and did not trigger (the live file was empty), the
\* time policy behind it did: the backup has the size policy's indexed name.
C26_Witness ==
    \E w \in Writers :
        /\ wrPc[w] = "cleanup"
        /\ Len(rollCfg.policies) = 2
        /\ rollCfg.policies[1].kind = "size"
        /\ cur.found < rollCfg.policies[1].maxSize
        /\ cur.renamedTo = <<"app", ".", "1", ".", "log">>
        /\ cur.renamedTo \in DOMAIN disk

\* The time policy's ShouldRoll made the call that is about to rotate do so.
TimeTriggered(w) ==
    /\ wrPc[w] = "rollover"
    /\ \E i \in 1..Len(rollCfg.policies) : Trigger(i) /\ rollCfg.policies[i].kind = "time"

\* The time of the sink's last rollover, or of its creation if it has not
\* rotated yet.
LastRolled == IF lastRollover = -1 THEN 0 ELSE lastRollover

\* C27: wherever the time policy stands in the list, it triggers only when the
\* time since the sink's last rollover is at least its interval.
C27_TimePolicyInterval ==
    \A w \in Writers :
        TimeTriggered(w) =>
            \A i \in 1..Len(rollCfg.policies) :
                rollCfg.policies[i].kind = "time" =>
                    fsNow - LastRolled >= rollCfg.policies[i].interval

\* C37: a rollover does not destroy an existing backup: the name it renames the live
\* file to is the name of no file that is on disk before the rename.
C37_BackupsPreserved ==
    [][renameCount' # renameCount => cur'.renamedTo \notin DOMAIN disk]_vars

(***************************************************************************)
(* Properties of an Entry (under SpecEntry)                                *)
(***************************************************************************)

\* C28: what a sink finds in the Context and in the Fields of an Entry, however
\* late it processes it, is what they held when the Entry was built: MDC
\* Put/Remove/Clear and writes to the map given to WithFields in between are
\* not visible.
C28_EntryImmutable ==
    entryPc = "processed" => sinkSaw = builtMaps


\* The configuration maps ParseFilter has no filter for: the nil map, a map whose
\* type is missing or not a string, a map of a type that is none of level, threshold,
\* marker and burst (in any case of the letters), a marker map without a marker
\* string, a level or threshold map without a level string.
TypeOf(config) == ToLower(StringOf(config, "type"))
Unparsable(config) ==
    \/ config.isNil
    \/ ~HasKey(config, "type")
    \/ HasKey(config, "type") /\ config.map["type"].typ # "string"
    \/ HasString(config, "type") /\ TypeOf(config) \notin {"level", "threshold", "marker", "burst"}
    \/ HasString(config, "type") /\ TypeOf(config) = "marker"
          /\ (~HasKey(config, "marker") \/ config.map["marker"].typ # "string")
    \/ HasString(config, "type") /\ TypeOf(config) \in {"level", "threshold"}
          /\ (~HasKey(config, "level") \/ config.map["level"].typ # "string")

\* C29: for a nil map, a map whose type is missing, not a string or none of
\* level/threshold/marker/burst, a marker map without a marker string and a
\* level/threshold map without a level string, ParseFilter returns no filter, and the
\* sink that was given the result accepts every entry.
C29_NoFilterAcceptsAll ==
    Unparsable(parseConfig) =>
        /\ parsePc # "config" => parsedFilter = NilFilter
        /\ parsePc = "applied" => parseAccepted

\* A marker map whose marker is not a string was parsed, and the sink accepted an
\* entry without a marker.
C29_Witness ==
    /\ parsePc = "applied"
    /\ ~parseConfig.isNil
    /\ HasString(parseConfig, "type") /\ TypeOf(parseConfig) = "marker"
    /\ HasKey(parseConfig, "marker") /\ ~HasString(parseConfig, "marker")
    /\ HasString(parseConfig, "on_mismatch")
    /\ parseEntry.marker = ""
    /\ parsedFilter = NilFilter
    /\ parseAccepted

\* C33: a marker filter for which no on_mismatch was given does not resolve to DENY
\* on an entry whose marker does not match, built by NewMarkerFilter or by ParseFilter
\* from a map of type marker without on_mismatch; the sink delivers the entry.
C33_MarkerNeverDenies ==
    /\ \A entry \in ParseEntries :
          ~EqualFold(entry.marker, "audit") =>
              Decide(NewMarkerFilter("audit"), entry) # "DENY"
    /\ (/\ parsePc = "applied"
        /\ parsedFilter # NilFilter
        /\ TypeOf(parseConfig) = "marker"
        /\ ~HasKey(parseConfig, "on_mismatch")
        /\ ~EqualFold(parseEntry.marker, parsedFilter.marker))
           => (Decide(parsedFilter, parseEntry) # "DENY" /\ parseAccepted)

\* C34: for a map of type burst that lacks rate, max_burst or level, ParseFilter
\* returns no filter, and the sink that was given the result accepts every entry.
C34_BurstIncompleteNoFilter ==
    (/\ ~parseConfig.isNil
     /\ HasString(parseConfig, "type") /\ TypeOf(parseConfig) = "burst"
     /\ \E key \in {"rate", "max_burst", "level"} : ~HasKey(parseConfig, key))
        => /\ parsePc # "config" => parsedFilter = NilFilter
           /\ parsePc = "applied" => parseAccepted

(***************************************************************************)
(* Properties of the order of a composite's children (under SpecOrder)     *)
(***************************************************************************)

HasBurstChild == \E i \in 1..Len(ordOriginal.filters) : IsBurst(ordOriginal.filters[i])

\* C32: for every composite filter and every permutation of its children, each
\* decision in a sequence of Decide calls is the same as with the original order,
\* also when a child is a burst filter.
C32_OrderIndependent ==
    ordCalls > 0 => ordResult[1] = ordResult[2]

(***************************************************************************)
(* Properties of the CronBasedPolicy (under SpecCron)                      *)
(***************************************************************************)

\* The hour field of the schedule cannot be parsed as an integer: fewer than three
\* fields, or a third field with a character that is not a digit.
HourUnparsable(schedule) ==
    \/ Len(Fields(schedule)) < 3
    \/ \E i \in 1..Len(Fields(schedule)[3]) : ~IsDigit(Fields(schedule)[3][i])

\* C35: for every schedule string whose hour field cannot be parsed as an integer,
\* the cron policy uses hour 4.
C35_UnparsableHourIsFour ==
    HourUnparsable(cronSchedule) => CronOf(cronPolicies).hour = 4

\* The cron policy's ShouldRoll returns true in this step.
CronReturnsTrue == CronOf(cronPolicies)'.lastRoll # CronOf(cronPolicies).lastRoll

\* The sink has rotated today at or after the hour of the policy.
RotatedTodaySince(hour) ==
    /\ cronRotatedAt >= 0
    /\ Day(cronRotatedAt) = Day(cronNow)
    /\ cronRotatedAt >= TargetToday(cronNow, hour)

\* C36: the cron policy's ShouldRoll returns true only when the hour of the clock is
\* the configured hour and the sink has not yet rotated today at or after that hour;
\* it returns true at most once per calendar day.
C36_CronOncePerDay ==
    [][/\ CronReturnsTrue =>
             /\ Hour(cronNow) = CronOf(cronPolicies).hour
             /\ ~RotatedTodaySince(CronOf(cronPolicies).hour)
       /\ \A i, j \in 1..Len(cronTrues') : i < j => Day(cronTrues'[i]) # Day(cronTrues'[j])]_vars

====
